---- MODULE Spec2Model ----
(***************************************************************************)
(* A model of pg-worm's query construction layer.                          *)
(*                                                                         *)
(* SQL text is a sequence of tokens.  A token is a maximal run of letters  *)
(* (a keyword or an identifier) or one single other character: a space, a  *)
(* parenthesis, the generic placeholder "?", the dollar sign, one decimal  *)
(* digit.  Every string operation of the source that works on characters   *)
(* (push_str, truncate, find('$'), match_indices('?'), is_numeric, parse,  *)
(* to_string, trim) is modelled on tokens; none of them ever cuts through  *)
(* a run of letters.                                                       *)
(*                                                                         *)
(* A parameter (&dyn ToSql) is an opaque value, written as a string.       *)
(***************************************************************************)
EXTENDS Naturals, Sequences, FiniteSets, TLC

VARIABLES
    version,   \* which predicate type the program is built against: Where
               \* (query/mod.rs), Filter (query/filter.rs) or the earlier
               \* Filter (lib.rs)
    lhs, rhs,  \* two predicate values the program holds
    op, res,   \* the last combinator applied to them and what it returned
    builder,   \* the statement builder under construction
    calls,     \* the methods called on it so far, with their arguments
    stmt,      \* a raw statement text handed to Query::new
    query,     \* the Query the builder, or Query::new, was converted into
    POOL,      \* pool.rs: static POOL: OnceLock<Pool>
    CLIENT,    \* lib.rs: static CLIENT: OnceCell<Client>
    conn,      \* the tasks that register a connection, and where each stands
    exec,      \* the execution of a statement, and where it stands
    sent,      \* the calls made on the executor so far
    PREPARED_CLIENT,      \* pool.rs: static PREPARED_CLIENT: OnceLock<Client>
    PREPARED_STATEMENTS,  \* pool.rs: the statement texts prepared so far, each
                          \* with its handle
    prep,      \* the tasks that call ensure_prepared, and where each stands
    slots,     \* the connections of the pool: who holds each, how often it
               \* was taken and how often it came back
    txn,       \* the tasks that run a Transaction or execute one statement,
               \* and where each stands
    data,      \* the rows of the database that are committed
    twin,      \* a second builder, put through the same calls as the first
               \* with values of its own, and the Query it was converted into
    migration  \* the last call of try_migration_from: the two schemas and
               \* the statements sent to the database

vars ==
    <<version, lhs, rhs, op, res, builder, calls, stmt, query,
      POOL, CLIENT, conn, exec, sent,
      PREPARED_CLIENT, PREPARED_STATEMENTS, prep, slots, txn, data, twin,
      migration>>

(***************************************************************************)
(* Text helpers: what the Rust standard library does on strings.           *)
(***************************************************************************)

DigitTokens == <<"0", "1", "2", "3", "4", "5", "6", "7", "8", "9">>

\* char::is_numeric on the characters the statements hold
is_numeric(c) == \E d \in 1..10 : DigitTokens[d] = c

\* usize::to_string / format!("{}", n): the decimal digits, most significant first
RECURSIVE to_string(_)
to_string(n) ==
    IF n < 10 THEN <<DigitTokens[n + 1]>>
    ELSE Append(to_string(n \div 10), DigitTokens[(n % 10) + 1])

DigitValue(c) == (CHOOSE d \in 1..10 : DigitTokens[d] = c) - 1

\* str::parse::<usize> on a non-empty run of digits
RECURSIVE parse(_)
parse(s) ==
    IF Len(s) = 1 THEN DigitValue(s[1])
    ELSE 10 * parse(SubSeq(s, 1, Len(s) - 1)) + DigitValue(s[Len(s)])

\* str::match_indices(pat): the positions of pat, ascending
match_indices(s, pat) ==
    LET at == {i \in 1..Len(s) : s[i] = pat}
    IN [k \in 1..Cardinality(at) |->
          CHOOSE i \in at : Cardinality({j \in at : j <= i}) = k]

\* String::truncate(new_len)
truncate(s, new_len) == IF new_len >= Len(s) THEN s ELSE SubSeq(s, 1, new_len)

\* str::trim().is_empty(): nothing but white space
trim_is_empty(s) == \A i \in 1..Len(s) : s[i] = " "

\* str::find(c): the first position of c, 0 for None
find(s, c) ==
    IF \E i \in 1..Len(s) : s[i] = c
    THEN CHOOSE i \in 1..Len(s) : s[i] = c /\ \A j \in 1..(i - 1) : s[j] # c
    ELSE 0

\* Vec<String>::join(sep)
RECURSIVE join(_, _)
join(v, sep) ==
    IF v = <<>> THEN <<>>
    ELSE IF Len(v) = 1 THEN v[1]
    ELSE v[1] \o sep \o join(Tail(v), sep)

(***************************************************************************)
(* query/mod.rs: Query, SqlChunk, Where.                                   *)
(***************************************************************************)

\* struct Query(pub String, Vec<&dyn ToSql>, PhantomData<T>): fields 1 and 2
Query_default == <<<<>>, <<>>>>

\* struct SqlChunk(pub String, pub Vec<&dyn ToSql>)
SqlChunk(text, params) == <<text, params>>

\* enum Where
And(vec) == [tag |-> "And", vec |-> vec]
Or(vec) == [tag |-> "Or", vec |-> vec]
Not(inner) == [tag |-> "Not", inner |-> inner]
Raw(chunk) == [tag |-> "Raw", chunk |-> chunk]
Empty == [tag |-> "Empty"]

\* replace_question_marks numbering from zero: count where count + 1 belongs
RECURSIVE rqm_loop_from_zero(_, _, _, _, _)
rqm_loop_from_zero(s, idx, count, last_index, buf) ==
    IF count >= Len(idx) THEN <<buf, last_index>>
    ELSE LET i == idx[count + 1]
             pushed == buf \o SubSeq(s, last_index, i - 1) \o <<"$">> \o to_string(count)
         IN rqm_loop_from_zero(s, idx, count + 1, i + 1, pushed)

\* The loop of replace_question_marks over match_indices('?').enumerate()
RECURSIVE rqm_loop(_, _, _, _, _)
rqm_loop(s, idx, count, last_index, buf) ==
    IF count >= Len(idx) THEN <<buf, last_index>>
    ELSE LET i == idx[count + 1]
             pushed == buf \o SubSeq(s, last_index, i - 1) \o <<"$">> \o to_string(count + 1)
         IN rqm_loop(s, idx, count + 1, i + 1, pushed)

replace_question_marks(s) ==
    LET r == rqm_loop(s, match_indices(s, "?"), 0, 1, <<>>)
    IN r[1] \o SubSeq(s, r[2], Len(s))

Query_new(s, params) == <<replace_question_marks(s), params>>

\* SqlChunk::push_to_buffer putting its parameters in front of the buffer's
SqlChunk_push_to_buffer_in_front(self, buffer) == <<buffer[1] \o self[1], self[2] \o buffer[2]>>

SqlChunk_push_to_buffer(self, buffer) == <<buffer[1] \o self[1], buffer[2] \o self[2]>>

Where_new(expr, params) == Raw(SqlChunk(expr, params))

\* emptiness that knows the Empty variant only
Where_is_empty_variant_only(self) == self.tag = "Empty"

RECURSIVE Where_is_empty(_)
Where_is_empty(self) ==
    CASE self.tag = "Empty" -> TRUE
      [] self.tag = "And" -> \A i \in 1..Len(self.vec) : Where_is_empty(self.vec[i])
      [] self.tag = "Or" -> \A i \in 1..Len(self.vec) : Where_is_empty(self.vec[i])
      [] self.tag = "Not" -> Where_is_empty(self.inner)
      [] self.tag = "Raw" -> self.chunk[1] = <<>>

Where_default == Where_new(<<>>, <<>>)

\* bitand building And(vec![other, self])
Where_bitand_swapped(self, other) ==
    IF self.tag = "Empty" THEN other
    ELSE IF other.tag = "Empty" THEN self
    ELSE IF self.tag = "And"
         THEN IF other.tag = "And" THEN And(self.vec \o other.vec)
              ELSE And(Append(self.vec, other))
    ELSE IF other.tag = "And" THEN And(Append(other.vec, self))
    ELSE And(<<other, self>>)

Where_bitand(self, other) ==
    IF self.tag = "Empty" THEN other
    ELSE IF other.tag = "Empty" THEN self
    ELSE IF self.tag = "And"
         THEN IF other.tag = "And" THEN And(self.vec \o other.vec)
              ELSE And(Append(self.vec, other))
    ELSE IF other.tag = "And" THEN And(Append(other.vec, self))
    ELSE And(<<self, other>>)

Where_bitor(self, other) ==
    IF self.tag = "Empty" THEN other
    ELSE IF other.tag = "Empty" THEN self
    ELSE IF self.tag = "Or"
         THEN IF other.tag = "And" THEN Or(self.vec \o other.vec)
              ELSE Or(Append(self.vec, other))
    ELSE IF other.tag = "Or" THEN Or(Append(other.vec, self))
    ELSE Or(<<self, other>>)

Where_and(self, other) == Where_bitand(self, other)

Where_or(self, other) == Where_bitor(self, other)

Where_not(self) == IF self.tag = "Not" THEN self.inner ELSE Not(self)

\* the separator without the parentheses around the children
SepAnd_bare == <<" ", "AND", " ">>

SepAnd == <<")", " ", "AND", " ", "(">>
SepOr == <<")", " ", "OR", " ", "(">>

RECURSIVE Where_push_to_buffer(_, _), push_each_Where(_, _, _, _)

\* for i in vec { i.push_to_buffer(buffer); buffer.0.push_str(sep); }
push_each_Where(vec, i, buffer, sep) ==
    IF i > Len(vec) THEN buffer
    ELSE LET b == Where_push_to_buffer(vec[i], buffer)
         IN push_each_Where(vec, i + 1, <<b[1] \o sep, b[2]>>, sep)

\* push_all_with_sep::<_, Where>
push_all_with_sep_Where(vec, buffer, sep) ==
    IF vec = <<>> THEN buffer
    ELSE LET b == push_each_Where(vec, 1, buffer, sep)
         IN <<truncate(b[1], Len(b[1]) - Len(sep)), b[2]>>

Where_push_to_buffer(self, buffer) ==
    IF Where_is_empty(self) THEN buffer
    ELSE CASE self.tag = "Raw" -> SqlChunk_push_to_buffer(self.chunk, buffer)
           [] self.tag = "Not" ->
                LET b == Where_push_to_buffer(self.inner,
                                              <<buffer[1] \o <<"NOT", " ", "(">>, buffer[2]>>)
                IN <<b[1] \o <<")">>, b[2]>>
           [] self.tag = "And" ->
                LET b == push_all_with_sep_Where(self.vec,
                                                 <<buffer[1] \o <<"(">>, buffer[2]>>, SepAnd)
                IN <<b[1] \o <<")">>, b[2]>>
           [] self.tag = "Or" ->
                LET b == push_all_with_sep_Where(self.vec,
                                                 <<buffer[1] \o <<"(">>, buffer[2]>>, SepOr)
                IN <<b[1] \o <<")">>, b[2]>>
           [] self.tag = "Empty" -> buffer

\* for i in vec { i.push_to_buffer(buffer); buffer.0.push_str(sep); }
RECURSIVE push_each_SqlChunk(_, _, _, _)
push_each_SqlChunk(vec, i, buffer, sep) ==
    IF i > Len(vec) THEN buffer
    ELSE LET b == SqlChunk_push_to_buffer(vec[i], buffer)
         IN push_each_SqlChunk(vec, i + 1, <<b[1] \o sep, b[2]>>, sep)

\* push_all_with_sep that leaves the last separator in place
push_all_with_sep_SqlChunk_trailing(vec, buffer, sep) ==
    IF vec = <<>> THEN buffer
    ELSE push_each_SqlChunk(vec, 1, buffer, sep)

\* push_all_with_sep::<_, SqlChunk>
push_all_with_sep_SqlChunk(vec, buffer, sep) ==
    IF vec = <<>> THEN buffer
    ELSE LET b == push_each_SqlChunk(vec, 1, buffer, sep)
         IN <<truncate(b[1], Len(b[1]) - Len(sep)), b[2]>>

\* tests::Where::to_stmt
Where_to_stmt(self) == Where_push_to_buffer(self, Query_default)[1]

(***************************************************************************)
(* query/table.rs: Column, TypedColumn and the comparisons that build      *)
(* Where fragments.                                                        *)
(***************************************************************************)

Column_new(table_name, column_name) ==
    [column_name |-> column_name, table_name |-> table_name,
     nullable |-> FALSE, unique |-> FALSE, primary_key |-> FALSE, generated |-> FALSE]

TypedColumn_new(table_name, column_name) == [column |-> Column_new(table_name, column_name)]

Column_full_name(self) == <<self.table_name, ".", self.column_name>>

\* eq naming the column without its table
TypedColumn_eq_bare(self, other) ==
    Where_new(<<self.column.column_name, " ", "=", " ", "?">>, <<other>>)

TypedColumn_eq(self, other) ==
    Where_new(<<self.column.table_name, ".", self.column.column_name, " ", "=", " ", "?">>,
              <<other>>)

\* gt writing the value into the text
TypedColumn_gt_inline(self, other) ==
    Where_new(<<self.column.table_name, ".", self.column.column_name, " ", ">", " ", other>>,
              <<>>)

TypedColumn_gt(self, other) ==
    Where_new(<<self.column.table_name, ".", self.column.column_name, " ", ">", " ", "?">>,
              <<other>>)

TypedColumn_gte(self, other) ==
    Where_new(<<self.column.table_name, ".", self.column.column_name, " ", ">", "=", " ", "?">>,
              <<other>>)

TypedColumn_lt(self, other) ==
    Where_new(<<self.column.table_name, ".", self.column.column_name, " ", "<", " ", "?">>,
              <<other>>)

TypedColumn_lte(self, other) ==
    Where_new(<<self.column.table_name, ".", self.column.column_name, " ", "<", "=", " ", "?">>,
              <<other>>)

TypedColumn_null(self) ==
    Where_new(<<self.column.table_name, ".", self.column.column_name, " ", "IS", " ", "NULL">>,
              <<>>)

TypedColumn_not_noll(self) == Where_not(TypedColumn_null(self))

TypedColumn_contains(self, value) ==
    Where_new(<<"?", " ", "=", " ", "ANY", "(",
                self.column.table_name, ".", self.column.column_name, ")">>,
              <<value>>)

TypedColumn_contains_not(self, value) == Where_not(TypedColumn_contains(self, value))

TypedColumn_contains_any(self, values) ==
    Where_new(<<self.column.table_name, ".", self.column.column_name, " ", "&", "&", " ", "?">>,
              <<values>>)

TypedColumn_contains_all(self, values) ==
    Where_new(<<self.column.table_name, ".", self.column.column_name, " ", "@", ">", " ", "?">>,
              <<values>>)

TypedColumn_contains_none(self, values) == Where_not(TypedColumn_contains_any(self, values))

(***************************************************************************)
(* query/filter.rs: Filter, the predicate type that carries positional     *)
(* placeholders and renumbers them when two filters are combined.          *)
(***************************************************************************)

Filter_new(s, args) == [stmt |-> s, args |-> args]

Filter_all == Filter_new(<<>>, <<>>)

\* parse().unwrap() on something that is no number aborts the thread
Panic == [panic |-> TRUE]

\* the inner loop: the number of digits that follow the '$' at position i
RECURSIVE count_digs(_, _, _)
count_digs(right_stmt, i, digs) ==
    IF i + 1 + digs <= Len(right_stmt) /\ is_numeric(right_stmt[i + 1 + digs])
    THEN count_digs(right_stmt, i, digs + 1)
    ELSE digs

\* the loop pushing the placeholder numbers of the right statement unshifted
RECURSIVE combine_loop_unshifted(_, _, _)
combine_loop_unshifted(left_stmt, right_stmt, f1_args_len) ==
    LET i == find(right_stmt, "$") IN
    IF i = 0 THEN [panic |-> FALSE, stmt |-> left_stmt \o right_stmt]
    ELSE LET digs == count_digs(right_stmt, i, 0) IN
         IF digs = 0 THEN Panic
         ELSE LET num == parse(SubSeq(right_stmt, i + 1, i + digs))
                  pushed == left_stmt \o SubSeq(right_stmt, 1, i) \o to_string(num)
                  new_start == i + digs + 1
              IN combine_loop_unshifted(pushed,
                                        SubSeq(right_stmt, new_start, Len(right_stmt)),
                                        f1_args_len)

\* while let Some(i) = right_stmt.find('$') { ... }; left_stmt += &right_stmt
RECURSIVE combine_loop(_, _, _)
combine_loop(left_stmt, right_stmt, f1_args_len) ==
    LET i == find(right_stmt, "$") IN
    IF i = 0 THEN [panic |-> FALSE, stmt |-> left_stmt \o right_stmt]
    ELSE LET digs == count_digs(right_stmt, i, 0) IN
         IF digs = 0 THEN Panic
         ELSE LET num == parse(SubSeq(right_stmt, i + 1, i + digs))
                  pushed == left_stmt \o SubSeq(right_stmt, 1, i)
                                      \o to_string(num + f1_args_len)
                  new_start == i + digs + 1
              IN combine_loop(pushed,
                              SubSeq(right_stmt, new_start, Len(right_stmt)),
                              f1_args_len)

Filter_combine_with_sep(a, b, sep) ==
    IF trim_is_empty(a.stmt) THEN b
    ELSE IF trim_is_empty(b.stmt) THEN a
    ELSE LET r == combine_loop(a.stmt \o sep, b.stmt, Len(a.args))
         IN IF r.panic THEN Panic
            ELSE Filter_new(r.stmt, a.args \o b.args)

Filter_to_sql(self) ==
    IF trim_is_empty(self.stmt) THEN <<>> ELSE <<"WHERE", " ">> \o self.stmt

Filter_bitand(self, other) == Filter_combine_with_sep(self, other, <<" ", "AND", " ">>)

Filter_bitor(self, other) == Filter_combine_with_sep(self, other, <<" ", "OR", " ">>)

Filter_not(self) == Filter_new(<<"NOT", " ", "(">> \o self.stmt \o <<")">>, self.args)

(***************************************************************************)
(* lib.rs: the same Filter one release earlier, and the Column operations  *)
(* that build filters.                                                     *)
(***************************************************************************)

lib_Filter_combine_with_sep(a, b, sep) ==
    LET r == combine_loop(a.stmt \o sep, b.stmt, Len(a.args))
    IN IF r.panic THEN Panic
       ELSE Filter_new(r.stmt, a.args \o b.args)

lib_Filter_bitand(self, other) == lib_Filter_combine_with_sep(self, other, <<" ", "AND", " ">>)

lib_Filter_bitor(self, other) == lib_Filter_combine_with_sep(self, other, <<" ", "OR", " ">>)

\* a column name is any text: a sequence of tokens
lib_Column_new(name) == [name |-> name]

lib_Column_eq(self, value) ==
    Filter_new(self.name \o <<" ", "=", " ", "$", "1">>, <<value>>)

lib_Column_neq(self, value) ==
    Filter_new(self.name \o <<" ", "!", "=", " ", "$", "1">>, <<value>>)

\* (1..=values.len()).map(|i| format!("${i}")).collect::<Vec<_>>().join(", ")
placeholders(n) == join([i \in 1..n |-> <<"$">> \o to_string(i)], <<",", " ">>)

\* one_of without the early return for an empty list
lib_Column_one_of_unguarded(self, values) ==
    Filter_new(self.name \o <<" ", "IN", " ", "(">> \o placeholders(Len(values)) \o <<")">>,
               values)

lib_Column_one_of(self, values) ==
    IF values = <<>> THEN Filter_all
    ELSE Filter_new(self.name \o <<" ", "IN", " ", "(">> \o placeholders(Len(values)) \o <<")">>,
                    values)

lib_Column_none_of(self, values) ==
    IF values = <<>> THEN Filter_all
    ELSE Filter_new(self.name \o <<" ", "NOT", " ", "IN", " ", "(">>
                        \o placeholders(Len(values)) \o <<")">>,
                    values)

(***************************************************************************)
(* query/select.rs, query/update.rs, query/delete.rs: the builders.        *)
(***************************************************************************)

None == [some |-> FALSE]
Some(v) == [some |-> TRUE, value |-> v]

Select_new(cols, from) ==
    [type |-> "Select", cols |-> cols, from |-> from, where_ |-> Empty,
     limit |-> None, offset |-> None]

Select_where_(self, where_) ==
    IF Where_is_empty(self.where_) THEN [self EXCEPT !.where_ = where_]
    ELSE [self EXCEPT !.where_ = Where_and(self.where_, where_)]

Select_where_raw(self, statement, params) == Select_where_(self, Where_new(statement, params))

Select_limit(self, limit) == [self EXCEPT !.limit = Some(limit)]

Select_offset(self, offset) == [self EXCEPT !.offset = Some(offset)]

\* the conversion with the OFFSET clause pushed before the LIMIT clause
Query_from_Select_offset_first(from) ==
    LET cols == join([i \in 1..Len(from.cols) |-> Column_full_name(from.cols[i])], <<",", " ">>)
        b2 == <<<<"SELECT", " ">> \o cols \o <<" ", "FROM", " ", from.from>>, <<>>>>
        b3 == IF ~Where_is_empty(from.where_)
              THEN Where_push_to_buffer(from.where_, <<b2[1] \o <<" ", "WHERE", " ">>, b2[2]>>)
              ELSE b2
        b4 == IF from.offset.some
              THEN <<b3[1] \o <<" ", "OFFSET", " ">> \o to_string(from.offset.value), b3[2]>>
              ELSE b3
        b5 == IF from.limit.some
              THEN <<b4[1] \o <<" ", "LIMIT", " ">> \o to_string(from.limit.value), b4[2]>>
              ELSE b4
    IN <<replace_question_marks(b5[1]), b5[2]>>

\* impl From<Select<T>> for Query<T>
Query_from_Select(from) ==
    LET b1 == <<"SELECT", " ">>
        cols == join([i \in 1..Len(from.cols) |-> Column_full_name(from.cols[i])], <<",", " ">>)
        b2 == <<b1 \o cols \o <<" ", "FROM", " ", from.from>>, <<>>>>
        b3 == IF ~Where_is_empty(from.where_)
              THEN Where_push_to_buffer(from.where_, <<b2[1] \o <<" ", "WHERE", " ">>, b2[2]>>)
              ELSE b2
        b4 == IF from.limit.some
              THEN <<b3[1] \o <<" ", "LIMIT", " ">> \o to_string(from.limit.value), b3[2]>>
              ELSE b3
        b5 == IF from.offset.some
              THEN <<b4[1] \o <<" ", "OFFSET", " ">> \o to_string(from.offset.value), b4[2]>>
              ELSE b4
    IN <<replace_question_marks(b5[1]), b5[2]>>

Update_new(table) ==
    [type |-> "Update", table |-> table, updates |-> <<>>, where_ |-> Empty,
     state |-> "NoneSet"]

Update_where_(self, where_) == [self EXCEPT !.where_ = Where_and(self.where_, where_)]

Update_where_raw(self, statement, params) == Update_where_(self, Where_new(statement, params))

\* set returning the builder in the state it had
Update_set_same_state(self, col, value) ==
    [type |-> "Update",
     state |-> self.state,
     updates |-> Append(self.updates,
                        SqlChunk(<<col.column.column_name, " ", "=", " ", "?">>, <<value>>)),
     where_ |-> self.where_,
     table |-> self.table]

Update_set(self, col, value) ==
    [type |-> "Update",
     state |-> "SomeSet",
     updates |-> Append(self.updates,
                        SqlChunk(<<col.column.column_name, " ", "=", " ", "?">>, <<value>>)),
     where_ |-> self.where_,
     table |-> self.table]

\* impl From<Update<SomeSet>> for Query and impl IntoFuture for
\* Update<SomeSet>: no other state of the builder has them
Update_is_executable(self) == self.state = "SomeSet"

\* impl From<Update<SomeSet>> for Query<u64>
\* the conversion with the parameters of the condition put in front
Query_from_Update_where_first(from) ==
    LET b1 == <<<<"UPDATE", " ", from.table, " ", "SET", " ">>, <<>>>>
        b2 == push_all_with_sep_SqlChunk(from.updates, b1, <<",", " ">>)
        b3 == IF ~Where_is_empty(from.where_)
              THEN Where_push_to_buffer(from.where_, <<b2[1] \o <<" ", "WHERE", " ">>, <<>>>>)
              ELSE <<b2[1], <<>>>>
    IN <<replace_question_marks(b3[1]), b3[2] \o b2[2]>>

Query_from_Update(from) ==
    LET b1 == <<<<"UPDATE", " ", from.table, " ", "SET", " ">>, <<>>>>
        b2 == push_all_with_sep_SqlChunk(from.updates, b1, <<",", " ">>)
        b3 == IF ~Where_is_empty(from.where_)
              THEN Where_push_to_buffer(from.where_, <<b2[1] \o <<" ", "WHERE", " ">>, b2[2]>>)
              ELSE b2
    IN <<replace_question_marks(b3[1]), b3[2]>>

Delete_new(table) == [type |-> "Delete", table |-> table, where_ |-> Empty]

Delete_where_(self, where_) == [self EXCEPT !.where_ = Where_and(self.where_, where_)]

Delete_where_raw(self, statement, params) == Delete_where_(self, Where_new(statement, params))

Delete_push_to_buffer(self, buffer) ==
    LET b1 == <<buffer[1] \o <<"DELETE", " ", "FROM", " ", self.table>>, buffer[2]>>
    IN IF ~Where_is_empty(self.where_)
       THEN Where_push_to_buffer(self.where_, <<b1[1] \o <<" ", "WHERE", " ">>, b1[2]>>)
       ELSE b1

\* ToQuery::to_query, whose definition is not among the sources: what the
\* tests of delete.rs show of it (push into an empty Query, then translate
\* the generic placeholders)
Delete_to_query(self) ==
    LET b == Delete_push_to_buffer(self, Query_default)
    IN <<replace_question_marks(b[1]), b[2]>>

(***************************************************************************)
(* The values the model draws its inputs from.                             *)
(***************************************************************************)

\* The most fragments two operands hold together
MaxLeaves == 3

\* #[derive(Model)] struct Book { id: i64, title: String, pages: Vec<String> }
Book_id == TypedColumn_new("book", "id")
Book_title == TypedColumn_new("book", "title")
Book_pages == TypedColumn_new("book", "pages")
Book_price == TypedColumn_new("book", "price")

\* what the comparisons of TypedColumn return
TypedFragments ==
    {TypedColumn_gt(Book_id, "1"), TypedColumn_eq(Book_title, "Foo")}

\* a raw condition with two parameters, and the two empty conditions
RawFragments ==
    {Where_new(<<"f", "(", "?", ",", " ", "?", ")">>, <<"a", "b">>), Where_default, Empty}

WhereFragments == TypedFragments \cup RawFragments

Person_name == lib_Column_new(<<"name">>)
Person_id == lib_Column_new(<<"id">>)

NineValues == <<"n1", "n2", "n3", "n4", "n5", "n6", "n7", "n8", "n9">>

FilterFragments ==
    {lib_Column_eq(Person_name, "Foo"),
     lib_Column_one_of(Person_id, <<"1", "2">>),
     lib_Column_one_of(Person_id, NineValues),
     lib_Column_none_of(Person_id, <<>>),
     Filter_all}

\* the number of fragments a tree holds
RECURSIVE Leaves(_)
Leaves(w) ==
    CASE w.tag = "And" -> IF w.vec = <<>> THEN 0 ELSE Leaves(w.vec[1]) + Leaves(And(Tail(w.vec)))
      [] w.tag = "Or" -> IF w.vec = <<>> THEN 0 ELSE Leaves(w.vec[1]) + Leaves(Or(Tail(w.vec)))
      [] w.tag = "Not" -> Leaves(w.inner)
      [] OTHER -> 1

\* the fragments of a filter, counted by the connectives of its statement
FilterLeaves(f) ==
    1 + Cardinality({i \in 1..Len(f.stmt) : f.stmt[i] \in {"AND", "OR", "NOT"}})

Size(p) == IF version = "Where" THEN Leaves(p) ELSE FilterLeaves(p)

NoResult == [tag |-> "Empty"]

(***************************************************************************)
(* The predicate combinators, applied by a program to the values it holds. *)
(***************************************************************************)

\* The tasks that try to register a connection
MaxTasks == 2

Tasks == 1..MaxTasks

NoReply == [ok |-> TRUE, value |-> "none"]

\* The connections the pool holds
MaxConns == 2

Conns == 1..MaxConns

\* a task that has not called ensure_prepared
NotPreparing == [pc |-> "idle", statement |-> <<>>, n |-> 0, result |-> "none"]

\* a task that has neither begun a transaction nor executed a statement
NoTransaction ==
    [pc |-> "idle", kind |-> "none", client |-> 0, transaction |-> "none",
     statement |-> "none", writes |-> {}, n |-> 0, ran_on |-> 0, seen |-> {},
     released |-> <<>>, result |-> "none"]

\* no prepared client, no prepared statement, every connection in the pool,
\* an empty table
NoMigration == [called |-> FALSE]

MigrationIdle == UNCHANGED migration

InitPool ==
    /\ PREPARED_CLIENT = None
    /\ PREPARED_STATEMENTS = <<>>
    /\ prep = [t \in Tasks |-> NotPreparing]
    /\ slots = [c \in Conns |-> [holder |-> 0, taken |-> 0, returned |-> 0]]
    /\ txn = [t \in Tasks |-> NoTransaction]
    /\ data = {}
    /\ migration = NoMigration

PoolIdle ==
    UNCHANGED <<PREPARED_CLIENT, PREPARED_STATEMENTS, prep, slots, txn, data>> /\ MigrationIdle

NoTwin == [builder |-> [type |-> "none"], query |-> [some |-> FALSE]]

TwinIdle == UNCHANGED twin

\* nothing registered, nothing executed
InitDb ==
    /\ POOL = None
    /\ CLIENT = None
    /\ conn = [t \in Tasks |-> [pc |-> "idle"]]
    /\ exec = [pc |-> "idle", n |-> 0, outcome |-> "none", statement |-> <<>>,
               reply |-> NoReply, result |-> NoReply]
    /\ sent = <<>>
    /\ InitPool
    /\ twin = NoTwin

DbIdle == UNCHANGED <<POOL, CLIENT, conn, exec, sent>> /\ PoolIdle /\ TwinIdle

InitIdle ==
    /\ op = "none"
    /\ res = NoResult
    /\ builder = [type |-> "none"]
    /\ calls = <<>>
    /\ stmt = <<>>
    /\ query = None
    /\ InitDb

InitPred ==
    /\ version \in {"Where", "Filter", "lib"}
    /\ lhs = (IF version = "Where" THEN Empty ELSE Filter_all)
    /\ rhs = (IF version = "Where" THEN Empty ELSE Filter_all)
    /\ InitIdle

Rest == UNCHANGED <<version, builder, calls, stmt, query>> /\ DbIdle

\* let lhs = <a comparison on a column, or Where::default(), or Where::Empty>
WhereLeft ==
    /\ version = "Where"
    /\ \E w \in WhereFragments :
         /\ 1 + Leaves(rhs) <= MaxLeaves
         /\ lhs' = w
    /\ op' = "none" /\ res' = NoResult
    /\ UNCHANGED rhs /\ Rest

WhereRight ==
    /\ version = "Where"
    /\ \E w \in WhereFragments :
         /\ Leaves(lhs) + 1 <= MaxLeaves
         /\ rhs' = w
    /\ op' = "none" /\ res' = NoResult
    /\ UNCHANGED lhs /\ Rest

\* lhs & rhs
WhereAnd ==
    /\ version = "Where"
    /\ op' = "and"
    /\ res' = Where_bitand(lhs, rhs)
    /\ UNCHANGED <<lhs, rhs>> /\ Rest

\* lhs | rhs
WhereOr ==
    /\ version = "Where"
    /\ op' = "or"
    /\ res' = Where_bitor(lhs, rhs)
    /\ UNCHANGED <<lhs, rhs>> /\ Rest

\* !lhs
WhereNot ==
    /\ version = "Where"
    /\ op' = "not"
    /\ res' = Where_not(lhs)
    /\ UNCHANGED <<lhs, rhs>> /\ Rest

\* let lhs = <a comparison on a column, or Filter::all()>
FilterLeft ==
    /\ version \in {"Filter", "lib"}
    /\ \E f \in FilterFragments :
         /\ 1 + FilterLeaves(rhs) <= MaxLeaves
         /\ lhs' = f
    /\ op' = "none" /\ res' = NoResult
    /\ UNCHANGED rhs /\ Rest

FilterRight ==
    /\ version \in {"Filter", "lib"}
    /\ \E f \in FilterFragments :
         /\ FilterLeaves(lhs) + 1 <= MaxLeaves
         /\ rhs' = f
    /\ op' = "none" /\ res' = NoResult
    /\ UNCHANGED lhs /\ Rest

FilterAnd ==
    /\ version = "Filter"
    /\ op' = "and"
    /\ res' = Filter_bitand(lhs, rhs)
    /\ UNCHANGED <<lhs, rhs>> /\ Rest

FilterOr ==
    /\ version = "Filter"
    /\ op' = "or"
    /\ res' = Filter_bitor(lhs, rhs)
    /\ UNCHANGED <<lhs, rhs>> /\ Rest

FilterNot ==
    /\ version = "Filter"
    /\ op' = "not"
    /\ res' = Filter_not(lhs)
    /\ UNCHANGED <<lhs, rhs>> /\ Rest

LibFilterAnd ==
    /\ version = "lib"
    /\ op' = "and"
    /\ res' = lib_Filter_bitand(lhs, rhs)
    /\ UNCHANGED <<lhs, rhs>> /\ Rest

LibFilterOr ==
    /\ version = "lib"
    /\ op' = "or"
    /\ res' = lib_Filter_bitor(lhs, rhs)
    /\ UNCHANGED <<lhs, rhs>> /\ Rest

\* let lhs = res: the result becomes the left operand of the next combinator
TakeLeft ==
    /\ op # "none"
    /\ res # Panic
    /\ Size(res) + Size(rhs) <= MaxLeaves
    /\ lhs' = res
    /\ op' = "none" /\ res' = NoResult
    /\ UNCHANGED rhs /\ Rest

\* let rhs = res
TakeRight ==
    /\ op # "none"
    /\ res # Panic
    /\ Size(lhs) + Size(res) <= MaxLeaves
    /\ rhs' = res
    /\ op' = "none" /\ res' = NoResult
    /\ UNCHANGED lhs /\ Rest

NextPred ==
    \/ WhereLeft \/ WhereRight \/ WhereAnd \/ WhereOr \/ WhereNot
    \/ FilterLeft \/ FilterRight \/ FilterAnd \/ FilterOr \/ FilterNot
    \/ LibFilterAnd \/ LibFilterOr
    \/ TakeLeft \/ TakeRight

SpecPred == InitPred /\ [][NextPred]_vars

(***************************************************************************)
(* The builders: a program starts one, calls its methods and converts it   *)
(* into a Query.                                                           *)
(***************************************************************************)

\* The most method calls on one builder
MaxCalls == 3

\* the conditions the typed columns build
TypedArgs ==
    LET a == TypedColumn_gt(Book_id, "1")
        b == TypedColumn_eq(Book_title, "Foo")
        c == TypedColumn_contains(Book_pages, "p")
    IN {a, b, c, Where_not(b), Where_bitand(a, c), Where_bitor(b, a)}

\* the conditions handed to where_
WhereArgs == TypedArgs \cup {Empty, Where_not(Where_default)}

\* the statements and parameters handed to where_raw
RawArgs ==
    {<<<<>>, <<>>>>, <<<<>>, <<"a">>>>,
     <<<<"f", "(", "?", ",", " ", "?", ")">>, <<"a", "b">>>>}

\* the assignments handed to set
SetArgs == {<<Book_title, "X">>, <<Book_price, "9">>}

Limits == {3, 12}
Offsets == {4}

InitBuild ==
    /\ version = "Where"
    /\ lhs = Empty /\ rhs = Empty
    /\ InitIdle

Idle == UNCHANGED <<version, lhs, rhs, op, res, stmt>> /\ DbIdle

Building(type) ==
    /\ builder.type = type
    /\ ~query.some
    /\ Len(calls) < MaxCalls

\* Book::select()
SelectNew ==
    /\ builder' = Select_new(<<Book_id.column, Book_title.column>>, "book")
    /\ calls' = <<>>
    /\ query' = None
    /\ Idle

SelectWhere ==
    /\ Building("Select")
    /\ \E w \in WhereArgs :
         /\ builder' = Select_where_(builder, w)
         /\ calls' = Append(calls, [method |-> "where_", where_ |-> w])
    /\ UNCHANGED query /\ Idle

SelectWhereRaw ==
    /\ Building("Select")
    /\ \E r \in RawArgs :
         /\ builder' = Select_where_raw(builder, r[1], r[2])
         /\ calls' = Append(calls, [method |-> "where_raw", where_ |-> Raw(r)])
    /\ UNCHANGED query /\ Idle

SelectLimit ==
    /\ Building("Select")
    /\ \E n \in Limits :
         /\ builder' = Select_limit(builder, n)
         /\ calls' = Append(calls, [method |-> "limit", n |-> n])
    /\ UNCHANGED query /\ Idle

SelectOffset ==
    /\ Building("Select")
    /\ \E n \in Offsets :
         /\ builder' = Select_offset(builder, n)
         /\ calls' = Append(calls, [method |-> "offset", n |-> n])
    /\ UNCHANGED query /\ Idle

\* let query: Query<_> = select.into()
SelectIntoQuery ==
    /\ builder.type = "Select"
    /\ ~query.some
    /\ query' = Some(Query_from_Select(builder))
    /\ UNCHANGED <<builder, calls>> /\ Idle

\* Book::update()
UpdateNew ==
    /\ builder' = Update_new("book")
    /\ calls' = <<>>
    /\ query' = None
    /\ Idle

UpdateWhere ==
    /\ Building("Update")
    /\ \E w \in WhereArgs :
         /\ builder' = Update_where_(builder, w)
         /\ calls' = Append(calls, [method |-> "where_", where_ |-> w])
    /\ UNCHANGED query /\ Idle

UpdateWhereRaw ==
    /\ Building("Update")
    /\ \E r \in RawArgs :
         /\ builder' = Update_where_raw(builder, r[1], r[2])
         /\ calls' = Append(calls, [method |-> "where_raw", where_ |-> Raw(r)])
    /\ UNCHANGED query /\ Idle

UpdateSet ==
    /\ Building("Update")
    /\ \E a \in SetArgs :
         /\ builder' = Update_set(builder, a[1], a[2])
         /\ calls' = Append(calls, [method |-> "set", col |-> a[1], value |-> a[2]])
    /\ UNCHANGED query /\ Idle

\* Query::from(update)
UpdateIntoQuery ==
    /\ builder.type = "Update"
    /\ Update_is_executable(builder)
    /\ ~query.some
    /\ query' = Some(Query_from_Update(builder))
    /\ UNCHANGED <<builder, calls>> /\ Idle

\* Book::delete()
DeleteNew ==
    /\ builder' = Delete_new("book")
    /\ calls' = <<>>
    /\ query' = None
    /\ Idle

DeleteWhere ==
    /\ Building("Delete")
    /\ \E w \in WhereArgs :
         /\ builder' = Delete_where_(builder, w)
         /\ calls' = Append(calls, [method |-> "where_", where_ |-> w])
    /\ UNCHANGED query /\ Idle

DeleteWhereRaw ==
    /\ Building("Delete")
    /\ \E r \in RawArgs :
         /\ builder' = Delete_where_raw(builder, r[1], r[2])
         /\ calls' = Append(calls, [method |-> "where_raw", where_ |-> Raw(r)])
    /\ UNCHANGED query /\ Idle

DeleteToQuery ==
    /\ builder.type = "Delete"
    /\ ~query.some
    /\ query' = Some(Delete_to_query(builder))
    /\ UNCHANGED <<builder, calls>> /\ Idle

NextBuild ==
    \/ SelectNew \/ SelectWhere \/ SelectWhereRaw \/ SelectLimit \/ SelectOffset
    \/ SelectIntoQuery
    \/ UpdateNew \/ UpdateWhere \/ UpdateWhereRaw \/ UpdateSet \/ UpdateIntoQuery
    \/ DeleteNew \/ DeleteWhere \/ DeleteWhereRaw \/ DeleteToQuery

SpecBuild == InitBuild /\ [][NextBuild]_vars

(***************************************************************************)
(* Query::new on a raw statement.                                          *)
(***************************************************************************)

\* The longest raw statement, in tokens, and the most placeholders in a row
MaxTextLen == 4
MaxMarks == 11

Alphabet == {"?", "$", "1", "a"}

RECURSIVE TextsUpTo(_)
TextsUpTo(n) ==
    IF n = 0 THEN {<<>>}
    ELSE LET shorter == TextsUpTo(n - 1)
         IN shorter \cup {Append(t, c) : t \in shorter, c \in Alphabet}

\* the statement of the documentation: col = ? AND other = ?
DocStatement ==
    <<"col", " ", "=", " ", "?", " ", "AND", " ", "other", " ", "=", " ", "?">>

TextInputs ==
    TextsUpTo(MaxTextLen) \cup {[i \in 1..n |-> "?"] : n \in 1..MaxMarks} \cup {DocStatement}

InitText ==
    /\ version = "Where"
    /\ lhs = Empty /\ rhs = Empty
    /\ op = "none" /\ res = NoResult
    /\ builder = [type |-> "none"] /\ calls = <<>>
    /\ stmt \in TextInputs
    /\ query = None
    /\ InitDb

\* Query::new(stmt, params)
QueryNew ==
    /\ ~query.some
    /\ query' = Some(Query_new(stmt, <<>>))
    /\ UNCHANGED <<version, lhs, rhs, op, res, builder, calls, stmt>> /\ DbIdle

\* Query::new(query.0, params): the text of a finished query, translated again
QueryAgain ==
    /\ query.some
    /\ query' = Some(Query_new(query.value[1], query.value[2]))
    /\ UNCHANGED <<version, lhs, rhs, op, res, builder, calls, stmt>> /\ DbIdle

NextText == QueryNew \/ QueryAgain

SpecText == InitText /\ [][NextText]_vars

(***************************************************************************)
(* The column operations: a program calls one comparison on a column and   *)
(* hands the fragment it gets to a Select.                                 *)
(***************************************************************************)

\* The longest list handed to one_of / none_of
MaxValues == 3

CompareValues == {"5", "Foo"}

ListValues == {"1", "2", "3"}

\* the lists handed to one_of / none_of
ValueLists ==
    UNION {[1..n -> ListValues] : n \in 0..MaxValues} \cup {NineValues \o <<"n10">>}

BookColumns == {Book_id, Book_title, Book_pages, Book_price}

PersonColumns == {Person_name, Person_id}

InitColumn ==
    /\ version \in {"Where", "lib"}
    /\ lhs = (IF version = "Where" THEN Empty ELSE Filter_all)
    /\ rhs = (IF version = "Where" THEN Empty ELSE Filter_all)
    /\ InitIdle

\* a comparison was called and its fragment is held
Compared(m, c, v, r) ==
    /\ op' = m
    /\ calls' = <<[method |-> m, col |-> c, value |-> v]>>
    /\ res' = r
    /\ builder' = [type |-> "none"]
    /\ query' = None
    /\ UNCHANGED <<version, lhs, rhs, stmt>> /\ DbIdle

TypedEq ==
    /\ version = "Where"
    /\ \E c \in BookColumns, v \in CompareValues : Compared("eq", c, v, TypedColumn_eq(c, v))

TypedGt ==
    /\ version = "Where"
    /\ \E c \in BookColumns, v \in CompareValues : Compared("gt", c, v, TypedColumn_gt(c, v))

TypedGte ==
    /\ version = "Where"
    /\ \E c \in BookColumns, v \in CompareValues : Compared("gte", c, v, TypedColumn_gte(c, v))

TypedLt ==
    /\ version = "Where"
    /\ \E c \in BookColumns, v \in CompareValues : Compared("lt", c, v, TypedColumn_lt(c, v))

TypedLte ==
    /\ version = "Where"
    /\ \E c \in BookColumns, v \in CompareValues : Compared("lte", c, v, TypedColumn_lte(c, v))

TypedNull ==
    /\ version = "Where"
    /\ \E c \in BookColumns : Compared("null", c, "", TypedColumn_null(c))

TypedContains ==
    /\ version = "Where"
    /\ \E c \in BookColumns, v \in CompareValues :
         Compared("contains", c, v, TypedColumn_contains(c, v))

\* Book::select().where_(fragment).into()
SelectFragment ==
    /\ version = "Where"
    /\ op # "none"
    /\ ~query.some
    /\ builder' = Select_where_(Select_new(<<Book_id.column, Book_title.column>>, "book"), res)
    /\ query' = Some(Query_from_Select(builder'))
    /\ UNCHANGED <<version, lhs, rhs, op, res, calls, stmt>> /\ DbIdle

LibEq ==
    /\ version = "lib"
    /\ \E c \in PersonColumns, v \in CompareValues : Compared("eq", c, v, lib_Column_eq(c, v))

LibNeq ==
    /\ version = "lib"
    /\ \E c \in PersonColumns, v \in CompareValues : Compared("neq", c, v, lib_Column_neq(c, v))

LibOneOf ==
    /\ version = "lib"
    /\ \E c \in PersonColumns, vs \in ValueLists :
         Compared("one_of", c, vs, lib_Column_one_of(c, vs))

LibNoneOf ==
    /\ version = "lib"
    /\ \E c \in PersonColumns, vs \in ValueLists :
         Compared("none_of", c, vs, lib_Column_none_of(c, vs))

NextColumn ==
    \/ TypedEq \/ TypedGt \/ TypedGte \/ TypedLt \/ TypedLte \/ TypedNull \/ TypedContains
    \/ SelectFragment
    \/ LibEq \/ LibNeq \/ LibOneOf \/ LibNoneOf

SpecColumn == InitColumn /\ [][NextColumn]_vars

(***************************************************************************)
(* query/mod.rs, pool.rs, lib.rs: executing a statement and registering    *)
(* the process-wide connection.                                            *)
(***************************************************************************)

Ok(v) == [ok |-> TRUE, value |-> v]
Err(e) == [ok |-> FALSE, error |-> e]

\* a cell that takes every value it is given
OnceCell_set_overwriting(cell, value) == [cell |-> Some(value), result |-> Ok("unit")]

\* OnceLock::set / OnceCell::set: the first value stays
OnceCell_set(cell, value) ==
    IF cell.some THEN [cell |-> cell, result |-> Err(value)]
    ELSE [cell |-> Some(value), result |-> Ok("unit")]

\* pool.rs set_pool: POOL.set(pool).map_err(|_| Error::AlreadyConnected)
set_pool(cell, pool) ==
    LET r == OnceCell_set(cell, pool)
    IN [cell |-> r.cell,
        result |-> IF r.result.ok THEN Ok("unit") ELSE Err("AlreadyConnected")]

\* pool.rs ConnectionBuilder::connect, valid: whether the connection string
\* parses and the pool builds
ConnectionBuilder_connect(cell, pool, valid) ==
    IF ~valid THEN [cell |-> cell, result |-> Err("InvalidPoolConfig")]
    ELSE set_pool(cell, pool)

\* lib.rs connect after tokio_postgres::connect(config, tls).await has
\* returned: `?` on its result, then CLIENT.set(client)
connect(cell, connected, client) ==
    IF ~connected.ok THEN [cell |-> cell, result |-> connected]
    ELSE LET r == OnceCell_set(cell, client)
         IN [cell |-> r.cell,
             result |-> IF r.result.ok THEN Ok("conn") ELSE Err("AlreadyConnected")]

\* lib.rs _get_client
get_client(cell) == IF cell.some THEN Ok(cell.value) ELSE Err("NotConnected")

\* fetch_client that does not look whether a pool is registered
fetch_client_unchecked(cell, got) ==
    IF got THEN Ok(cell) ELSE Err("NoConnectionInPool")

\* pool.rs fetch_client, got: whether the pool hands out a client
fetch_client(cell, got) ==
    IF ~cell.some THEN Err("NotConnected")
    ELSE IF got THEN Ok(cell.value)
    ELSE Err("NoConnectionInPool")

\* T::try_from(row): the decoding the derive macro generates; a row either
\* decodes into its value or fails with its own error
try_from(row) ==
    IF row.decodes THEN Ok(<<"T", row.id>>) ELSE Err(<<"decode", row.id>>)

\* collect that keeps what decoded and drops the rows that failed
collect_lenient(results) ==
    Ok([i \in 1..Len(SelectSeq(results, LAMBDA r : r.ok)) |->
          SelectSeq(results, LAMBDA r : r.ok)[i].value])

\* Iterator<Item = Result<T, E>>::collect::<Result<Vec<T>, E>>()
RECURSIVE collect(_)
collect(results) ==
    IF results = <<>> THEN Ok(<<>>)
    ELSE IF ~results[1].ok THEN results[1]
    ELSE LET rest == collect(Tail(results))
         IN IF rest.ok THEN Ok(<<results[1].value>> \o rest.value) ELSE rest

\* impl QueryOutcome for u64: client.execute(statement, params).await
u64_exec_with(reply) == reply

\* impl QueryOutcome for Vec<T>
Vec_exec_with(reply) ==
    IF ~reply.ok THEN reply
    ELSE collect([i \in 1..Len(reply.value) |-> try_from(reply.value[i])])

\* Option<Result<T, E>>::transpose after Iterator::next
transpose(next) ==
    IF ~next.some THEN Ok(None)
    ELSE IF next.value.ok THEN Ok(Some(next.value.value))
    ELSE next.value

\* the contract of a query for exactly one row: no row is an error
Option_exec_with_one(reply) ==
    IF ~reply.ok THEN reply
    ELSE IF reply.value = <<>> THEN Err("RowNotFound")
    ELSE transpose(Some(try_from(reply.value[1])))

\* impl QueryOutcome for Option<T>: the iterator is lazy, next() decodes
\* the first row only
Option_exec_with(reply) ==
    IF ~reply.ok THEN reply
    ELSE transpose(IF reply.value = <<>> THEN None ELSE Some(try_from(reply.value[1])))

\* The most statements executed and the most rows one query returns
MaxExecs == 2
MaxRows == 2

Outcomes == {"u64", "Vec", "Option"}

\* the statements handed to the executor
Statements ==
    {Delete_to_query(Delete_new("book"))[1],
     Query_from_Select(Select_new(<<Book_id.column, Book_title.column>>, "book"))[1]}

\* the rows a query returns: each decodes or does not
RowLists ==
    UNION {{[i \in 1..n |-> [id |-> i, decodes |-> d[i]]] : d \in [1..n -> BOOLEAN]} :
             n \in 0..MaxRows}

\* what the executor answers
Replies(outcome) ==
    IF outcome = "u64" THEN {Err("PostgresError")} \cup {Ok(n) : n \in 0..2}
    ELSE {Err("PostgresError")} \cup {Ok(rows) : rows \in RowLists}

PredIdle ==
    UNCHANGED <<version, lhs, rhs, op, res, builder, calls, stmt, query>>
      /\ TwinIdle /\ MigrationIdle

InitExec ==
    /\ version = "Where"
    /\ lhs = Empty /\ rhs = Empty
    /\ InitIdle

\* query.await: IntoFuture for Query calls T::exec(&self.0, self.1)
Exec ==
    /\ exec.pc \in {"idle", "done"}
    /\ exec.n < MaxExecs
    /\ \E o \in Outcomes, s \in Statements :
         exec' = [pc |-> "fetch_client", n |-> exec.n + 1, outcome |-> o, statement |-> s,
                  reply |-> NoReply, result |-> NoReply]
    /\ UNCHANGED <<POOL, CLIENT, conn, sent>> /\ PredIdle /\ PoolIdle

\* let client = fetch_client().await?;
ExecFetchClient ==
    /\ exec.pc = "fetch_client"
    /\ \E got \in BOOLEAN :
         LET client == fetch_client(POOL, got)
         IN exec' = IF client.ok THEN [exec EXCEPT !.pc = "exec_with"]
                    ELSE [exec EXCEPT !.pc = "done", !.result = client]
    /\ UNCHANGED <<POOL, CLIENT, conn, sent>> /\ PredIdle /\ PoolIdle

\* client.query(statement, params) / client.execute(statement, params)
ExecutorCall ==
    /\ exec.pc = "exec_with"
    /\ sent' = Append(sent, [method |-> IF exec.outcome = "u64" THEN "execute" ELSE "query",
                              statement |-> exec.statement, n |-> exec.n])
    /\ exec' = [exec EXCEPT !.pc = "await"]
    /\ UNCHANGED <<POOL, CLIENT, conn>> /\ PredIdle /\ PoolIdle

\* an execution that calls the executor again when the call failed
ExecutorReply_retrying ==
    /\ exec.pc = "await"
    /\ \E reply \in Replies(exec.outcome) :
         exec' = IF reply.ok
                 THEN [exec EXCEPT !.pc = "done", !.reply = reply, !.result = reply]
                 ELSE [exec EXCEPT !.pc = "exec_with"]
    /\ UNCHANGED <<POOL, CLIENT, conn, sent>> /\ PredIdle /\ PoolIdle

\* .await returns; the rest of exec_with runs
ExecutorReply ==
    /\ exec.pc = "await"
    /\ \E reply \in Replies(exec.outcome) :
         exec' = [exec EXCEPT
                    !.pc = "done",
                    !.reply = reply,
                    !.result = CASE exec.outcome = "u64" -> u64_exec_with(reply)
                                 [] exec.outcome = "Vec" -> Vec_exec_with(reply)
                                 [] exec.outcome = "Option" -> Option_exec_with(reply)]
    /\ UNCHANGED <<POOL, CLIENT, conn, sent>> /\ PredIdle /\ PoolIdle

\* _get_client()
GetClient ==
    /\ exec.pc \in {"idle", "done"}
    /\ exec.n < MaxExecs
    /\ exec' = [pc |-> "done", n |-> exec.n + 1, outcome |-> "_get_client",
                statement |-> <<>>, reply |-> NoReply, result |-> get_client(CLIENT)]
    /\ UNCHANGED <<POOL, CLIENT, conn, sent>> /\ PredIdle /\ PoolIdle

\* a task arrived: late when the cell it is about to set is already set
Arrived(t, kind, cell) == [pc |-> "connecting", kind |-> kind, late |-> cell.some]

Returned(t, r, registered) ==
    [conn EXCEPT ![t] = [pc |-> "done", kind |-> conn[t].kind, late |-> conn[t].late,
                         registered |-> registered, result |-> r]]

\* connect(config, tls): up to tokio_postgres::connect(config, tls).await
Connect(t) ==
    /\ conn[t].pc = "idle"
    /\ conn' = [conn EXCEPT ![t] = Arrived(t, "connect", CLIENT)]
    /\ UNCHANGED <<POOL, CLIENT, exec, sent>> /\ PredIdle /\ PoolIdle

\* the await returns and the rest of connect runs
ConnectReturns(t) ==
    /\ conn[t].pc = "connecting" /\ conn[t].kind = "connect"
    /\ \E connected \in {Ok(t), Err("PostgresError")} :
         LET r == connect(CLIENT, connected, t)
         IN /\ CLIENT' = r.cell
            /\ conn' = Returned(t, r.result, connected.ok)
    /\ UNCHANGED <<POOL, exec, sent>> /\ PredIdle /\ PoolIdle

\* set_pool(pool)
SetPool(t) ==
    /\ conn[t].pc = "idle"
    /\ LET r == set_pool(POOL, t)
       IN /\ POOL' = r.cell
          /\ conn' = [conn EXCEPT ![t] = [pc |-> "done", kind |-> "set_pool",
                                          late |-> POOL.some, registered |-> TRUE,
                                          result |-> r.result]]
    /\ UNCHANGED <<CLIENT, exec, sent>> /\ PredIdle /\ PoolIdle

\* Connection::build(conn_string).connect()
BuilderConnect(t) ==
    /\ conn[t].pc = "idle"
    /\ \E valid \in BOOLEAN :
         LET r == ConnectionBuilder_connect(POOL, t, valid)
         IN /\ POOL' = r.cell
            /\ conn' = [conn EXCEPT ![t] = [pc |-> "done", kind |-> "build",
                                            late |-> POOL.some, registered |-> valid,
                                            result |-> r.result]]
    /\ UNCHANGED <<CLIENT, exec, sent>> /\ PredIdle /\ PoolIdle

NextDb ==
    \/ Exec \/ ExecFetchClient \/ ExecutorCall \/ ExecutorReply \/ GetClient
    \/ \E t \in Tasks : Connect(t)
    \/ \E t \in Tasks : ConnectReturns(t)
    \/ \E t \in Tasks : SetPool(t)
    \/ \E t \in Tasks : BuilderConnect(t)

SpecDb == InitExec /\ [][NextDb]_vars

(***************************************************************************)
(* pool.rs: the cache of prepared statements.                              *)
(***************************************************************************)

\* PREPARED_CLIENT.get().ok_or(Error::NotConnected)
fetch_prepared_client(cell) ==
    IF cell.some THEN Ok(cell.value) ELSE Err("NotConnected")

\* HashMap::contains_key
contains_key(map, key) == key \in DOMAIN map

\* HashMap::insert: a second insert under the same key replaces the value
insert(map, key, value) ==
    [k \in DOMAIN map \cup {key} |-> IF k = key THEN value ELSE map[k]]

\* The most calls of ensure_prepared one task makes
MaxPrepares == 3

DbRest == UNCHANGED <<POOL, CLIENT, conn, exec, sent>>

\* ensure_prepared(statement), up to the return on a cached statement: the
\* lock guard is a temporary of the let statement and is gone at its end
EnsurePrepared(t) ==
    /\ prep[t].pc \in {"idle", "done"}
    /\ prep[t].n < MaxPrepares
    /\ \E statement \in Statements :
         LET is_prepared == contains_key(PREPARED_STATEMENTS, statement)
         IN prep' = [prep EXCEPT ![t] =
                       [pc |-> IF is_prepared THEN "done" ELSE "fetch",
                        statement |-> statement, n |-> prep[t].n + 1,
                        result |-> IF is_prepared THEN "Ok" ELSE "none"]]
    /\ UNCHANGED <<PREPARED_CLIENT, PREPARED_STATEMENTS, slots, txn, data>>
    /\ DbRest /\ PredIdle

\* the rest of ensure_prepared, one step for each time the future is polled:
\* fetch_prepared_client().await? and the call of prepare, then what follows
\* prepare(statement).await?, the insert under the lock
EnsurePreparedPolled(t) ==
    /\ prep[t].pc \in {"fetch", "prepare"}
    /\ IF prep[t].pc = "fetch"
       THEN LET client == fetch_prepared_client(PREPARED_CLIENT)
            IN /\ prep' = [prep EXCEPT ![t] =
                             IF client.ok THEN [@ EXCEPT !.pc = "prepare"]
                             ELSE [@ EXCEPT !.pc = "done", !.result = client.error]]
               /\ UNCHANGED PREPARED_STATEMENTS
       ELSE \E prepared \in BOOLEAN :
              IF prepared
              THEN /\ PREPARED_STATEMENTS' =
                        insert(PREPARED_STATEMENTS, prep[t].statement, <<t, prep[t].n>>)
                   /\ prep' = [prep EXCEPT ![t] = [@ EXCEPT !.pc = "done", !.result = "Ok"]]
              ELSE /\ prep' = [prep EXCEPT ![t] =
                                 [@ EXCEPT !.pc = "done", !.result = "PostgresError"]]
                   /\ UNCHANGED PREPARED_STATEMENTS
    /\ UNCHANGED <<PREPARED_CLIENT, slots, txn, data>>
    /\ DbRest /\ PredIdle

NextPrepared ==
    \/ \E t \in Tasks : EnsurePrepared(t)
    \/ \E t \in Tasks : EnsurePreparedPolled(t)

SpecPrepared == InitExec /\ [][NextPrepared]_vars

(***************************************************************************)
(* query/transaction.rs, query/mod.rs: transactions and executions on      *)
(* pooled connections.  A task either runs one Transaction (begin, some    *)
(* statements, then commit, rollback or drop) or executes one statement on *)
(* its own.  A transaction inserts the row named after its task; a select  *)
(* returns the rows it can see.                                            *)
(***************************************************************************)

\* Pool::get hands out a connection nobody holds
take(slot, t) == [holder |-> t, taken |-> slot.taken + 1, returned |-> slot.returned]

\* dropping a pool::Client (deadpool's Object) gives the connection back
Object_drop(slot) == [holder |-> 0, taken |-> slot.taken, returned |-> slot.returned + 1]

\* a drop that frees the memory and forgets the client inside
PinnedClient_drop_dealloc_only(slot) == slot

\* impl Drop for PinnedClient: drop_in_place(self.0), then dealloc
PinnedClient_drop(slot) == Object_drop(slot)

\* dropping a Transaction drops its fields in the order of their declaration:
\* transaction, then _client
Transaction_drop == <<"transaction", "client">>

\* an execute that goes through exec, on a client fetched from the pool
Transaction_execute_on_pool(t, statement) ==
    [ran_on |-> 0,
     writes |-> txn[t].writes,
     data |-> IF statement = "insert" THEN data \cup {t} ELSE data,
     seen |-> IF statement = "select" THEN data ELSE txn[t].seen]

\* Transaction::execute: query.exec_with(&self.transaction); the statement
\* runs inside the transaction, on the connection the transaction borrows
Transaction_execute(t, statement) ==
    [ran_on |-> txn[t].client,
     writes |-> IF statement = "insert" THEN txn[t].writes \cup {t} ELSE txn[t].writes,
     data |-> data,
     seen |-> IF statement = "select" THEN data \cup txn[t].writes ELSE txn[t].seen]

\* The most statements one transaction executes
MaxStatements == 1

TxStatements == {"insert", "select"}

PreparedIdle == UNCHANGED <<PREPARED_CLIENT, PREPARED_STATEMENTS, prep>>

\* the process has called Connection::build(conn_string).connect() once
InitTx ==
    /\ version = "Where"
    /\ lhs = Empty /\ rhs = Empty
    /\ op = "none" /\ res = NoResult
    /\ builder = [type |-> "none"] /\ calls = <<>>
    /\ stmt = <<>> /\ query = None
    /\ \E valid \in BOOLEAN :
         LET r == ConnectionBuilder_connect(None, 1, valid)
         IN /\ POOL = r.cell
            /\ conn = [t \in Tasks |->
                         IF t = 1 THEN [pc |-> "done", kind |-> "build", late |-> FALSE,
                                        registered |-> valid, result |-> r.result]
                         ELSE [pc |-> "idle"]]
    /\ CLIENT = None
    /\ exec = [pc |-> "idle", n |-> 0, outcome |-> "none", statement |-> <<>>,
               reply |-> NoReply, result |-> NoReply]
    /\ sent = <<>>
    /\ InitPool
    /\ twin = NoTwin

\* the connection the pool hands out next: the first that nobody holds
Free == {c \in Conns : slots[c].holder = 0 /\ \A b \in 1..(c - 1) : slots[b].holder # 0}

\* fetch_client().await? as the first step of Transaction::begin (kind
\* "Transaction") or of QueryOutcome::exec (kind "exec"); c = 0: the pool
\* hands out nothing
Fetched(t, kind, statement, c) ==
    LET client == fetch_client(POOL, c # 0)
    IN /\ IF client.ok
          THEN /\ slots' = [slots EXCEPT ![c] = take(@, t)]
               /\ txn' = [txn EXCEPT ![t] =
                            [@ EXCEPT !.pc = IF kind = "exec" THEN "exec_with" ELSE "from_client",
                                      !.kind = kind, !.client = c,
                                      !.statement = statement]]
          ELSE /\ txn' = [txn EXCEPT ![t] =
                            [@ EXCEPT !.pc = "done", !.kind = kind, !.result = client.error]]
               /\ UNCHANGED slots

\* Transaction::begin(), up to client.transaction().await in from_client
Begin(t) ==
    /\ txn[t].pc = "idle"
    /\ \E c \in Free \cup {0} : Fetched(t, "Transaction", "none", c)
    /\ UNCHANGED data
    /\ PreparedIdle /\ DbRest /\ PredIdle

\* .transaction().await? returns: the Transaction is built, or the error
\* returns and the PinnedClient goes out of scope
BeginReturns(t) ==
    /\ txn[t].pc = "from_client"
    /\ \E opened \in BOOLEAN :
         IF opened
         THEN /\ txn' = [txn EXCEPT ![t] = [@ EXCEPT !.pc = "open", !.transaction = "open"]]
              /\ UNCHANGED slots
         ELSE /\ txn' = [txn EXCEPT ![t] =
                           [@ EXCEPT !.pc = "done", !.result = "PostgresError",
                                     !.released = Append(@, "client")]]
              /\ slots' = [slots EXCEPT ![txn[t].client] = PinnedClient_drop(@)]
    /\ UNCHANGED data
    /\ PreparedIdle /\ DbRest /\ PredIdle

\* transaction.execute(query).await
TransactionExecute(t) ==
    /\ txn[t].pc = "open"
    /\ txn[t].n < MaxStatements
    /\ \E statement \in TxStatements :
         LET r == Transaction_execute(t, statement)
         IN /\ txn' = [txn EXCEPT ![t] =
                         [@ EXCEPT !.n = @ + 1, !.statement = statement,
                                   !.ran_on = r.ran_on, !.writes = r.writes,
                                   !.seen = r.seen]]
            /\ data' = r.data
    /\ UNCHANGED slots
    /\ PreparedIdle /\ DbRest /\ PredIdle

\* the Transaction goes away: its fields are released in the order given
Released(t, how, order) ==
    /\ txn' = [txn EXCEPT ![t] =
                 [@ EXCEPT !.pc = "done", !.transaction = how,
                           !.result = IF how = "failed" THEN "PostgresError" ELSE "Ok",
                           !.released = @ \o order]]
    /\ slots' = [slots EXCEPT ![txn[t].client] = PinnedClient_drop(@)]

\* transaction.commit().await: self.transaction is moved into commit and
\* consumed there; what is left of self, _client, is dropped when commit
\* returns
Commit(t) ==
    /\ txn[t].pc = "open"
    /\ \E committed \in BOOLEAN :
         /\ Released(t, IF committed THEN "committed" ELSE "failed", Transaction_drop)
         /\ data' = IF committed THEN data \cup txn[t].writes ELSE data
    /\ PreparedIdle /\ DbRest /\ PredIdle

\* transaction.rollback().await
Rollback(t) ==
    /\ txn[t].pc = "open"
    /\ \E rolled_back \in BOOLEAN :
         Released(t, IF rolled_back THEN "rolled_back" ELSE "failed", Transaction_drop)
    /\ UNCHANGED data
    /\ PreparedIdle /\ DbRest /\ PredIdle

\* the Transaction is dropped with neither commit nor rollback
DropTransaction(t) ==
    /\ txn[t].pc = "open"
    /\ Released(t, "dropped", Transaction_drop)
    /\ UNCHANGED data
    /\ PreparedIdle /\ DbRest /\ PredIdle

\* query.await outside a transaction: exec fetches a client and calls
\* exec_with(statement, params, &client)
Execute(t) ==
    /\ txn[t].pc = "idle"
    /\ \E c \in Free \cup {0}, statement \in TxStatements : Fetched(t, "exec", statement, c)
    /\ UNCHANGED data
    /\ PreparedIdle /\ DbRest /\ PredIdle

\* exec_with returns and exec ends: the client, a local of exec, is dropped
ExecuteReturns(t) ==
    /\ txn[t].pc = "exec_with"
    /\ \E ok \in BOOLEAN :
         /\ txn' = [txn EXCEPT ![t] =
                      [@ EXCEPT !.pc = "done", !.n = 1, !.ran_on = txn[t].client,
                                !.result = IF ok THEN "Ok" ELSE "PostgresError",
                                !.seen = IF ok /\ txn[t].statement = "select" THEN data ELSE @,
                                !.released = Append(@, "client")]]
         /\ data' = IF ok /\ txn[t].statement = "insert" THEN data \cup {t} ELSE data
    /\ slots' = [slots EXCEPT ![txn[t].client] = Object_drop(@)]
    /\ PreparedIdle /\ DbRest /\ PredIdle

\* the future of an execution is dropped while exec_with awaits the answer:
\* the client it holds is dropped with it; the server may or may not have
\* run the statement
ExecuteAbandoned(t) ==
    /\ txn[t].pc = "exec_with"
    /\ txn' = [txn EXCEPT ![t] =
                 [@ EXCEPT !.pc = "done", !.result = "abandoned",
                           !.released = Append(@, "client")]]
    /\ \E ran \in BOOLEAN :
         data' = IF ran /\ txn[t].statement = "insert" THEN data \cup {t} ELSE data
    /\ slots' = [slots EXCEPT ![txn[t].client] = Object_drop(@)]
    /\ PreparedIdle /\ DbRest /\ PredIdle

NextTx ==
    \/ \E t \in Tasks : Begin(t)
    \/ \E t \in Tasks : BeginReturns(t)
    \/ \E t \in Tasks : TransactionExecute(t)
    \/ \E t \in Tasks : Commit(t)
    \/ \E t \in Tasks : Rollback(t)
    \/ \E t \in Tasks : DropTransaction(t)
    \/ \E t \in Tasks : Execute(t)
    \/ \E t \in Tasks : ExecuteReturns(t)
    \/ \E t \in Tasks : ExecuteAbandoned(t)

SpecTx == InitTx /\ [][NextTx]_vars

(***************************************************************************)
(* Two builders put through the same calls, each with values of its own.   *)
(***************************************************************************)

\* The most method calls on each of the two builders
MaxTwinCalls == 2

TwinValues == {"5", "?"}

TwinColumns == {Book_id, Book_pages}

TwinOps == {"eq", "gt", "lte", "contains", "contains_not", "contains_all"}

\* column.<op>(value)
Comparison(o, column, value) ==
    CASE o = "eq" -> TypedColumn_eq(column, value)
      [] o = "gt" -> TypedColumn_gt(column, value)
      [] o = "lte" -> TypedColumn_lte(column, value)
      [] o = "contains" -> TypedColumn_contains(column, value)
      [] o = "contains_not" -> TypedColumn_contains_not(column, value)
      [] o = "contains_all" -> TypedColumn_contains_all(column, <<value, value>>)

\* Book::select() / Book::update() / Book::delete()
Builder_new(type) ==
    CASE type = "Select" -> Select_new(<<Book_id.column, Book_title.column>>, "book")
      [] type = "Update" -> Update_new("book")
      [] type = "Delete" -> Delete_new("book")

\* builder.where_(where_)
Builder_where_(self, where_) ==
    CASE self.type = "Select" -> Select_where_(self, where_)
      [] self.type = "Update" -> Update_where_(self, where_)
      [] self.type = "Delete" -> Delete_where_(self, where_)

\* builder.where_raw(statement, params)
Builder_where_raw(self, statement, params) ==
    CASE self.type = "Select" -> Select_where_raw(self, statement, params)
      [] self.type = "Update" -> Update_where_raw(self, statement, params)
      [] self.type = "Delete" -> Delete_where_raw(self, statement, params)

\* the conversion of a builder into a Query
Builder_into_query(self) ==
    CASE self.type = "Select" -> Query_from_Select(self)
      [] self.type = "Update" -> Query_from_Update(self)
      [] self.type = "Delete" -> Delete_to_query(self)

InitTwin == InitBuild

TwinRest == UNCHANGED <<version, lhs, rhs, op, res, stmt>> /\ DbRest /\ PoolIdle

TwinBuilding ==
    /\ builder.type # "none"
    /\ ~query.some
    /\ Len(calls) < MaxTwinCalls

TwinNew ==
    /\ \E type \in {"Select", "Update", "Delete"} :
         /\ builder' = Builder_new(type)
         /\ twin' = [builder |-> Builder_new(type), query |-> None]
    /\ calls' = <<>>
    /\ query' = None
    /\ TwinRest

TwinWhere ==
    /\ TwinBuilding
    /\ \E o \in TwinOps, column \in TwinColumns, v1 \in TwinValues, v2 \in TwinValues :
         /\ builder' = Builder_where_(builder, Comparison(o, column, v1))
         /\ twin' = [twin EXCEPT !.builder = Builder_where_(@, Comparison(o, column, v2))]
    /\ calls' = Append(calls, [method |-> "where_"])
    /\ UNCHANGED query /\ TwinRest

TwinWhereRaw ==
    /\ TwinBuilding
    /\ \E v1 \in TwinValues, v2 \in TwinValues :
         LET statement == <<"f", "(", "?", ",", " ", "?", ")">>
         IN /\ builder' = Builder_where_raw(builder, statement, <<v1, "a">>)
            /\ twin' = [twin EXCEPT !.builder = Builder_where_raw(@, statement, <<v2, "b">>)]
    /\ calls' = Append(calls, [method |-> "where_raw"])
    /\ UNCHANGED query /\ TwinRest

TwinSet ==
    /\ TwinBuilding
    /\ builder.type = "Update"
    /\ \E column \in {Book_title, Book_price}, v1 \in TwinValues, v2 \in TwinValues :
         /\ builder' = Update_set(builder, column, v1)
         /\ twin' = [twin EXCEPT !.builder = Update_set(@, column, v2)]
    /\ calls' = Append(calls, [method |-> "set"])
    /\ UNCHANGED query /\ TwinRest

TwinLimit ==
    /\ TwinBuilding
    /\ builder.type = "Select"
    /\ \E n \in Limits, offset \in BOOLEAN :
         /\ builder' = IF offset THEN Select_offset(builder, n) ELSE Select_limit(builder, n)
         /\ twin' = [twin EXCEPT !.builder = IF offset THEN Select_offset(@, n)
                                             ELSE Select_limit(@, n)]
    /\ calls' = Append(calls, [method |-> "limit"])
    /\ UNCHANGED query /\ TwinRest

TwinIntoQuery ==
    /\ builder.type # "none"
    /\ builder.type = "Update" => Update_is_executable(builder)
    /\ ~query.some
    /\ query' = Some(Builder_into_query(builder))
    /\ twin' = [twin EXCEPT !.query = Some(Builder_into_query(twin.builder))]
    /\ UNCHANGED <<builder, calls>> /\ TwinRest

NextTwin ==
    \/ TwinNew \/ TwinWhere \/ TwinWhereRaw \/ TwinSet \/ TwinLimit \/ TwinIntoQuery

SpecTwin == InitTwin /\ [][NextTwin]_vars

(***************************************************************************)
(* query/mod.rs: the trees a program builds from the comparisons of typed  *)
(* columns with & | and !.                                                 *)
(***************************************************************************)

\* The most fragments the two trees hold together
MaxTreeLeaves == 4

InitTree ==
    /\ version = "Where"
    /\ lhs = Empty /\ rhs = Empty
    /\ InitIdle

\* what one expression builds: a comparison, or two joined by & or |
TreeInputs ==
    TypedFragments
      \cup {Where_bitand(x, y) : x, y \in TypedFragments}
      \cup {Where_bitor(x, y) : x, y \in TypedFragments}

\* let lhs = <an expression>
TreeLeft ==
    /\ \E w \in TreeInputs :
         /\ Leaves(w) + Leaves(rhs) <= MaxTreeLeaves
         /\ lhs' = w
    /\ op' = "none" /\ res' = NoResult
    /\ UNCHANGED rhs /\ Rest

TreeRight ==
    /\ \E w \in TreeInputs :
         /\ Leaves(lhs) + Leaves(w) <= MaxTreeLeaves
         /\ rhs' = w
    /\ op' = "none" /\ res' = NoResult
    /\ UNCHANGED lhs /\ Rest

\* let lhs = res
TreeTakeLeft ==
    /\ op # "none"
    /\ Leaves(res) + Leaves(rhs) <= MaxTreeLeaves
    /\ lhs' = res
    /\ op' = "none" /\ res' = NoResult
    /\ UNCHANGED rhs /\ Rest

\* let rhs = res
TreeTakeRight ==
    /\ op # "none"
    /\ Leaves(lhs) + Leaves(res) <= MaxTreeLeaves
    /\ rhs' = res
    /\ op' = "none" /\ res' = NoResult
    /\ UNCHANGED lhs /\ Rest

NextTree ==
    \/ TreeLeft \/ TreeRight \/ WhereAnd \/ WhereOr \/ WhereNot
    \/ TreeTakeLeft \/ TreeTakeRight

SpecTree == InitTree /\ [][NextTree]_vars

(***************************************************************************)
(* lib.rs, query/filter.rs: filters combined when a column name holds a    *)
(* dollar sign.                                                            *)
(***************************************************************************)

\* Column::new("a$b")
Dollar_column == lib_Column_new(<<"a", "$", "b">>)

DollarFragments ==
    {lib_Column_eq(Dollar_column, "5"),
     lib_Column_eq(Person_name, "Foo"),
     lib_Column_one_of(Person_id, <<"1", "2">>)}

InitCombine ==
    /\ version \in {"Filter", "lib"}
    /\ lhs = Filter_all /\ rhs = Filter_all
    /\ InitIdle

\* let lhs = <a comparison on a column>
CombineLeft ==
    /\ \E f \in DollarFragments :
         /\ 1 + FilterLeaves(rhs) <= MaxLeaves
         /\ lhs' = f
    /\ op' = "none" /\ res' = NoResult
    /\ UNCHANGED rhs /\ Rest

CombineRight ==
    /\ \E f \in DollarFragments :
         /\ FilterLeaves(lhs) + 1 <= MaxLeaves
         /\ rhs' = f
    /\ op' = "none" /\ res' = NoResult
    /\ UNCHANGED lhs /\ Rest

NextCombine ==
    \/ CombineLeft \/ CombineRight
    \/ FilterAnd \/ FilterOr \/ LibFilterAnd \/ LibFilterOr
    \/ TakeLeft \/ TakeRight

SpecCombine == InitCombine /\ [][NextCombine]_vars

(***************************************************************************)
(* migration/mod.rs: the statements that migrate one schema to another.    *)
(* A statement is a record that names what it does and to what.            *)
(***************************************************************************)

\* the statements f yields for the elements of seq, one after the other
flat_map(seq, f(_)) ==
    LET RECURSIVE from(_)
        from(i) == IF i > Len(seq) THEN <<>> ELSE f(seq[i]) \o from(i + 1)
    IN from(1)

\* iter().find(|i| i.name == name)
find_name(seq, name) ==
    LET at == {i \in 1..Len(seq) : seq[i].name = name}
    IN IF at = {} THEN None ELSE Some(seq[CHOOSE i \in at : \A j \in at : i <= j])

migration_Column_new(name, data_type) ==
    [name |-> name, data_type |-> data_type, constraints |-> <<>>]

migration_Column_not_null(self) == [self EXCEPT !.constraints = Append(@, "NotNull")]

\* Column::up: "{name} {data_type}"
migration_Column_up(self) == <<self.name, self.data_type>>

\* Column::down
migration_Column_down(self) == <<"DROP COLUMN IF EXISTS", self.name>>

\* Column::migrate_without_constraints
Column_migrate_without_constraints(self, other) ==
    IF self.data_type # other.data_type
    THEN << <<"ALTER COLUMN", self.name, "TYPE", self.data_type>> >>
    ELSE <<>>

\* ColumnConstraint::migrate_to, for NotNull
ColumnConstraint_migrate_to(self, column) == <<"ALTER COLUMN", column.name, "SET NOT NULL">>

\* Column::add_constraints
Column_add_constraints(self) ==
    [i \in 1..Len(self.constraints) |-> ColumnConstraint_migrate_to(self.constraints[i], self)]

\* format!("ALTER TABLE {} {}", self.name, i)
AlterTable(name, i) == <<"ALTER TABLE", name>> \o i

Table_new(name) == [name |-> name, columns |-> <<>>, constraints |-> <<>>]

\* Table::up: CREATE TABLE name (columns), and the table's constraints
Table_up(self) ==
    <<"CREATE TABLE", self.name>> \o flat_map(self.columns, migration_Column_up)
      \o flat_map(self.constraints, LAMBDA i : i)

Table_drop_all_constraints_cascading(self) == <<"DO", "DROP CONSTRAINT", self.name>>

\* Table::migrate_without_constraints
Table_migrate_without_constraints(self, old_table) ==
    LET change(new_column) ==
          LET old_column == find_name(old_table.columns, new_column.name)
          IN IF old_column.some
             THEN LET stmts == Column_migrate_without_constraints(new_column, old_column.value)
                  IN [i \in 1..Len(stmts) |-> AlterTable(self.name, stmts[i])]
             ELSE <<AlterTable(self.name, migration_Column_up(new_column))>>
        gone == SelectSeq(old_table.columns,
                          LAMBDA i : ~\E j \in 1..Len(self.columns) : i.name = self.columns[j].name)
    IN <<Table_drop_all_constraints_cascading(self)>>
         \o flat_map(self.columns, change)
         \o [i \in 1..Len(gone) |-> AlterTable(self.name, migration_Column_down(gone[i]))]

\* Table::add_constraints
Table_add_constraints(self) ==
    LET of(column) ==
          LET stmts == Column_add_constraints(column)
          IN [i \in 1..Len(stmts) |-> AlterTable(self.name, stmts[i])]
    IN flat_map(self.columns, of)
         \o [i \in 1..Len(self.constraints) |-> AlterTable(self.name, self.constraints[i])]

\* Schema::migrate_from: the statements which migrate old to self
Schema_migrate_from(self, old) ==
    LET change(table) ==
          LET old_table == find_name(old.tables, table.name)
          IN IF old_table.some THEN Table_migrate_without_constraints(table, old_table.value)
             ELSE <<Table_up(table)>>
    IN flat_map(self.tables, change) \o flat_map(self.tables, Table_add_constraints)

\* try_migration_from(old, new, client): old.migrate_from(new), joined and
\* sent with simple_query
try_migration_from(old, new) == Schema_migrate_from(old, new)

\* The most tables of a schema and the most columns of a table
MaxTables == 2
MaxColumns == 2

MigrationColumns ==
    {migration_Column_not_null(migration_Column_new("id", "BIGINT")),
     migration_Column_new("title", "TEXT"),
     migration_Column_new("title", "VARCHAR")}

\* the column lists of a table: no name twice
ColumnLists ==
    {cs \in UNION {[1..n -> MigrationColumns] : n \in 0..MaxColumns} :
       \A i, j \in 1..Len(cs) : i # j => cs[i].name # cs[j].name}

MigrationTables ==
    {[name |-> name, columns |-> cs, constraints |-> <<>>] :
       name \in {"book", "author"}, cs \in ColumnLists}

\* the schemas: no table name twice
Schemas ==
    {[name |-> "public", tables |-> ts] :
       ts \in {ts \in UNION {[1..n -> MigrationTables] : n \in 0..MaxTables} :
                 \A i, j \in 1..Len(ts) : i # j => ts[i].name # ts[j].name}}

\* try_migration_from(&old, &new, &client).await; one call is followed, since
\* a call reads nothing that an earlier call wrote
TryMigrationFrom ==
    /\ ~migration.called
    /\ \E old \in Schemas, new \in Schemas :
         migration' = [called |-> TRUE, old |-> old, new |-> new,
                       statements |-> try_migration_from(old, new)]
    /\ UNCHANGED <<version, lhs, rhs, op, res, builder, calls, stmt, query, twin>>
    /\ DbRest
    /\ UNCHANGED <<PREPARED_CLIENT, PREPARED_STATEMENTS, prep, slots, txn, data>>

NextMigration == TryMigrationFrom

SpecMigration == InitExec /\ [][NextMigration]_vars

(***************************************************************************)
(* Properties of the predicate combinators (checked under SpecPred).       *)
(***************************************************************************)

IsWhere == version = "Where"
IsFilter == version \in {"Filter", "lib"}

\* the text and the parameters a tree renders into an empty buffer
Render(w) == Where_push_to_buffer(w, Query_default)

\* the text of a rendered tree after the finishing pass
FinalText(w) == replace_question_marks(Render(w)[1])

Count(text, tok) == Cardinality({i \in 1..Len(text) : text[i] = tok})

\* a predicate fragment: one (text, values) pair, possibly negated
IsFragment(w) == w.tag = "Raw" \/ (w.tag = "Not" /\ w.inner.tag = "Raw")

\* C3: rendering A AND B for non-empty fragments A and B yields as many
\* placeholders as A and B hold together, and the parameter list is A's
\* values followed by B's values (Where fragments and Filters alike).
C3_AndConcatenates ==
    op = "and" =>
      /\ (IsWhere /\ IsFragment(lhs) /\ IsFragment(rhs)
              /\ ~Where_is_empty(lhs) /\ ~Where_is_empty(rhs))
           => /\ Count(Render(res)[1], "?")
                   = Count(Render(lhs)[1], "?") + Count(Render(rhs)[1], "?")
              /\ Render(res)[2] = Render(lhs)[2] \o Render(rhs)[2]
      /\ (IsFilter /\ ~trim_is_empty(lhs.stmt) /\ ~trim_is_empty(rhs.stmt))
           => /\ res # Panic
              /\ Count(res.stmt, "$") = Count(lhs.stmt, "$") + Count(rhs.stmt, "$")
              /\ res.args = lhs.args \o rhs.args

C3_Witness ==
    /\ IsWhere /\ op = "and"
    /\ lhs = Where_new(<<"f", "(", "?", ",", " ", "?", ")">>, <<"a", "b">>)
    /\ rhs = TypedColumn_gt(Book_id, "1")
    /\ Render(res)[2] = <<"a", "b", "1">>
    /\ Count(Render(res)[1], "?") = 3

\* the empty predicate of the version at hand
EmptyPredicate == IF IsWhere THEN Empty ELSE Filter_all

\* C4: Empty is the identity of AND and OR: combined with Empty on either
\* side, a predicate comes back verbatim, for Where and for Filter::all().
C4_EmptyIsIdentity ==
    op \in {"and", "or"} =>
      /\ lhs = EmptyPredicate => res = rhs
      /\ rhs = EmptyPredicate => res = lhs

Negate(p) ==
    IF IsWhere THEN Where_not(p)
    ELSE Filter_not(p)

\* C5: double negation cancels: not(not(X)) equals X, text and parameters
\* alike, for every predicate X (Where trees and Filters that have a not).
C5_DoubleNegationCancels ==
    (op = "not" /\ version # "lib") => Negate(res) = lhs

\* the positions of the placeholders of s: a "$" that a digit follows
PlaceholderPositions(s) ==
    LET at == {i \in 1..Len(s) : s[i] = "$" /\ i < Len(s) /\ is_numeric(s[i + 1])}
    IN [k \in 1..Cardinality(at) |->
          CHOOSE i \in at : Cardinality({j \in at : j <= i}) = k]

\* the last digit of the placeholder at position i
LastDigit(s, i) ==
    CHOOSE e \in (i + 1)..Len(s) :
        /\ \A j \in (i + 1)..e : is_numeric(s[j])
        /\ (e < Len(s) => ~is_numeric(s[e + 1]))

\* the numbers of the placeholders of s, left to right
PlaceholderNumbers(s) ==
    LET at == PlaceholderPositions(s)
    IN [k \in 1..Len(at) |-> parse(SubSeq(s, at[k] + 1, LastDigit(s, at[k])))]

\* the statement s with every placeholder $k rewritten to $(k + n)
RECURSIVE Shift(_, _)
Shift(s, n) ==
    LET at == PlaceholderPositions(s) IN
    IF at = <<>> THEN s
    ELSE LET i == at[Len(at)]
             e == LastDigit(s, i)
         IN Shift(SubSeq(s, 1, i - 1), n)
              \o <<"$">> \o to_string(parse(SubSeq(s, i + 1, e)) + n)
              \o SubSeq(s, e + 1, Len(s))

\* placeholder index = 1-based argument position
WellNumbered(f) == PlaceholderNumbers(f.stmt) = [k \in 1..Len(f.args) |-> k]

Separator == IF op = "and" THEN <<" ", "AND", " ">> ELSE <<" ", "OR", " ">>

\* C7: combining two non-empty filters yields f1.stmt + separator + f2.stmt
\* with every placeholder of f2 shifted by the number of f1's arguments, and
\* f1's arguments followed by f2's; placeholder index stays argument position
\* however many combinations are chained.
C7_FilterRenumbering ==
    IsFilter =>
      /\ WellNumbered(lhs) /\ WellNumbered(rhs)
      /\ (op \in {"and", "or"} /\ ~trim_is_empty(lhs.stmt) /\ ~trim_is_empty(rhs.stmt))
           => /\ res # Panic
              /\ res.stmt = lhs.stmt \o Separator \o Shift(rhs.stmt, Len(lhs.args))
              /\ res.args = lhs.args \o rhs.args
              /\ WellNumbered(res)

C7_Witness ==
    /\ version = "Filter" /\ op = "and"
    /\ lhs.args = NineValues \o <<"1", "2">>
    /\ rhs = lib_Column_eq(Person_name, "Foo")
    /\ SubSeq(res.stmt, Len(res.stmt) - 2, Len(res.stmt)) = <<"$", "1", "2">>
    /\ res.args[12] = "Foo"

\* the children of vec that are not empty, in list order
RECURSIVE NonEmptyChildren(_)
NonEmptyChildren(vec) ==
    IF vec = <<>> THEN <<>>
    ELSE IF Where_is_empty(vec[1]) THEN NonEmptyChildren(Tail(vec))
    ELSE <<vec[1]>> \o NonEmptyChildren(Tail(vec))

Parenthesized(vec) == [i \in 1..Len(vec) |-> <<"(">> \o Render(vec[i])[1] \o <<")">>]

RECURSIVE ParamsOf(_)
ParamsOf(vec) == IF vec = <<>> THEN <<>> ELSE Render(vec[1])[2] \o ParamsOf(Tail(vec))

\* C8: an And/Or tree renders its non-empty children, each parenthesized,
\* joined by " AND " / " OR " in list order; an empty child contributes no
\* text, no "()", no separator and no parameters.
C8_EmptyChildrenSkipped ==
    (IsWhere /\ op \in {"and", "or"} /\ res.tag \in {"And", "Or"} /\ ~Where_is_empty(res)) =>
      LET kids == NonEmptyChildren(res.vec)
          sep == IF res.tag = "And" THEN <<" ", "AND", " ">> ELSE <<" ", "OR", " ">>
      IN /\ Render(res)[1] = join(Parenthesized(kids), sep)
         /\ Render(res)[2] = ParamsOf(kids)

\* C9 as stated: id > 1 AND title = "Foo" renders without parentheses.
C9_BareConjunction ==
    (IsWhere /\ op = "and"
        /\ lhs = TypedColumn_gt(Book_id, "1") /\ rhs = TypedColumn_eq(Book_title, "Foo"))
      => /\ FinalText(res) = <<"book", ".", "id", " ", ">", " ", "$", "1", " ", "AND", " ",
                               "book", ".", "title", " ", "=", " ", "$", "2">>
         /\ Render(res)[2] = <<"1", "Foo">>

\* C9 as amended: id > 1 AND title = "Foo" on table book renders
\* (book.id > $1) AND (book.title = $2) with the parameters [1, "Foo"].
C9_ParenthesizedConjunction ==
    (IsWhere /\ op = "and"
        /\ lhs = TypedColumn_gt(Book_id, "1") /\ rhs = TypedColumn_eq(Book_title, "Foo"))
      => /\ FinalText(res) = <<"(", "book", ".", "id", " ", ">", " ", "$", "1", ")",
                               " ", "AND", " ",
                               "(", "book", ".", "title", " ", "=", " ", "$", "2", ")">>
         /\ Render(res)[2] = <<"1", "Foo">>

C9_Witness ==
    /\ IsWhere /\ op = "and"
    /\ lhs = TypedColumn_gt(Book_id, "1") /\ rhs = TypedColumn_eq(Book_title, "Foo")
    /\ res = And(<<lhs, rhs>>)

(***************************************************************************)
(* Properties of the builders (checked under SpecBuild) and of Query::new  *)
(* (checked under SpecText).                                               *)
(***************************************************************************)

\* the text with its j-th generic placeholder replaced by "#" and the value
\* the caller supplied for it
RECURSIVE InlineText(_, _)
InlineText(text, params) ==
    LET at == match_indices(text, "?")
        n == Len(at)
    IN IF n = 0 THEN text
       ELSE InlineText(SubSeq(text, 1, at[n] - 1), params)
              \o (IF n <= Len(params) THEN <<"#", params[n]>> ELSE <<"?">>)
              \o SubSeq(text, at[n] + 1, Len(text))

InlineChunk(chunk) == SqlChunk(InlineText(chunk[1], chunk[2]), chunk[2])

RECURSIVE InlineWhere(_)
InlineWhere(w) ==
    CASE w.tag = "Raw" -> Raw(InlineChunk(w.chunk))
      [] w.tag = "Not" -> Not(InlineWhere(w.inner))
      [] w.tag = "And" -> And([i \in 1..Len(w.vec) |-> InlineWhere(w.vec[i])])
      [] w.tag = "Or" -> Or([i \in 1..Len(w.vec) |-> InlineWhere(w.vec[i])])
      [] OTHER -> w

InlineBuilder(b) ==
    IF b.type = "Update"
    THEN [b EXCEPT !.where_ = InlineWhere(b.where_),
                   !.updates = [i \in 1..Len(b.updates) |-> InlineChunk(b.updates[i])]]
    ELSE [b EXCEPT !.where_ = InlineWhere(b.where_)]

Convert(b) ==
    CASE b.type = "Select" -> Query_from_Select(b)
      [] b.type = "Update" -> Query_from_Update(b)
      [] b.type = "Delete" -> Delete_to_query(b)

\* an inlined text with its k-th value written as the placeholder $k
RECURSIVE Numbered(_)
Numbered(g) ==
    LET at == match_indices(g, "#")
        n == Len(at)
    IN IF n = 0 THEN g
       ELSE Numbered(SubSeq(g, 1, at[n] - 1))
              \o <<"$">> \o to_string(n)
              \o SubSeq(g, at[n] + 2, Len(g))

\* the values of an inlined text, left to right
InlinedValues(g) ==
    LET at == match_indices(g, "#")
    IN [k \in 1..Len(at) |-> g[at[k] + 1]]

IsBuilder == builder.type \in {"Select", "Update", "Delete"}

\* no where_raw among the calls: every predicate is a typed-column one
TypedOnly ==
    \A i \in 1..Len(calls) :
        /\ calls[i].method # "where_raw"
        /\ calls[i].method = "where_" => calls[i].where_ \in TypedArgs \cup {Empty}

\* C1: the statement a Select, Update or Delete builder with typed-column
\* predicates converts into holds exactly the placeholders $1..$n, once
\* each, ascending from left to right, n the number of parameters, and the
\* k-th parameter is the value supplied for the k-th placeholder.
C1_PlaceholdersMatchParameters ==
    (IsBuilder /\ query.some /\ TypedOnly) =>
      LET q == query.value
          g == Convert(InlineBuilder(builder))[1]
      IN /\ PlaceholderNumbers(q[1]) = [k \in 1..Len(q[2]) |-> k]
         /\ Count(q[1], "$") = Len(q[2])
         /\ Count(q[1], "?") = 0
         /\ q[1] = Numbered(g)
         /\ q[2] = InlinedValues(g)

C1_Witness ==
    /\ builder.type = "Update" /\ query.some /\ TypedOnly
    /\ Len(calls) = 3
    /\ calls[1].method = "where_" /\ calls[1].where_.tag = "Or"
    /\ calls[2].method = "set"
    /\ calls[3].method = "where_" /\ calls[3].where_.tag = "Not"
    /\ Len(query.value[2]) = 4
    /\ PlaceholderNumbers(query.value[1]) = <<1, 2, 3, 4>>

SetCalls == SelectSeq(calls, LAMBDA c : c.method = "set")

HasSet == SetCalls # <<>>

\* C2: an Update builder can be converted into a Query exactly when set was
\* called on it at least once: without a set call it is in NoneSet, where_
\* and where_raw leave the state alone, and every set call yields SomeSet
\* with its assignment appended.
C2_UpdateTypeState ==
    builder.type = "Update" =>
      /\ builder.state = (IF HasSet THEN "SomeSet" ELSE "NoneSet")
      /\ Update_is_executable(builder) <=> HasSet
      /\ query.some => HasSet
      /\ builder.updates
           = [i \in 1..Len(SetCalls) |->
                SqlChunk(<<SetCalls[i].col.column.column_name, " ", "=", " ", "?">>,
                         <<SetCalls[i].value>>)]

C2_Witness ==
    /\ builder.type = "Update" /\ query.some
    /\ Len(calls) = 3
    /\ calls[1].method = "where_" /\ calls[2].method = "set" /\ calls[3].method = "where_raw"
    /\ builder.state = "SomeSet"

\* the text replace_question_marks is to return: the k-th "?" as $k, every
\* other token as it was
RECURSIVE Translated(_)
Translated(s) ==
    LET at == {i \in 1..Len(s) : s[i] = "?"} IN
    IF at = {} THEN s
    ELSE LET last == CHOOSE i \in at : \A j \in at : j <= i
         IN Translated(SubSeq(s, 1, last - 1))
              \o <<"$">> \o to_string(Cardinality(at))
              \o SubSeq(s, last + 1, Len(s))

\* C6: replace_question_marks rewrites the k-th "?" to $k, leaves everything
\* else as it was and in order, leaves no "?", and applied to its own output
\* returns it unchanged.
C6_TranslationIdempotent ==
    (builder.type = "none" /\ query.some) =>
      LET o == query.value[1]
      IN /\ o = Translated(stmt)
         /\ Count(o, "?") = 0
         /\ replace_question_marks(o) = o

C6_Witness ==
    /\ builder.type = "none" /\ query.some
    /\ stmt = DocStatement
    /\ query.value[1] = <<"col", " ", "=", " ", "$", "1", " ", "AND", " ",
                          "other", " ", "=", " ", "$", "2">>

\* the SET clause the set calls ask for
ExpectedSet ==
    join([i \in 1..Len(SetCalls) |->
            <<SetCalls[i].col.column.column_name, " ", "=", " ", "$">> \o to_string(i)],
         <<",", " ">>)

\* every condition handed to where_ and where_raw is empty
NoCondition ==
    \A i \in 1..Len(calls) :
        calls[i].method \in {"where_", "where_raw"} => Where_is_empty(calls[i].where_)

\* C10: an Update with the set calls (c1,v1)..(cn,vn) renders
\* UPDATE t SET c1 = $1, ..., cn = $n, the assignments in call order and no
\* trailing separator, followed by " WHERE ..." only when the predicate is
\* not empty.
C10_UpdateRendering ==
    (builder.type = "Update" /\ query.some) =>
      LET text == query.value[1]
          head == <<"UPDATE", " ", "book", " ", "SET", " ">> \o ExpectedSet
          n == Len(head)
      IN /\ Len(text) >= n /\ SubSeq(text, 1, n) = head
         /\ SubSeq(query.value[2], 1, Len(SetCalls))
              = [i \in 1..Len(SetCalls) |-> SetCalls[i].value]
         /\ IF NoCondition THEN text = head
            ELSE /\ Len(text) > n + 3
                 /\ SubSeq(text, n + 1, n + 3) = <<" ", "WHERE", " ">>

C10_Witness ==
    /\ builder.type = "Update" /\ query.some
    /\ calls = <<[method |-> "set", col |-> Book_title, value |-> "X"],
                 [method |-> "set", col |-> Book_price, value |-> "9"]>>
    /\ query.value[1] = <<"UPDATE", " ", "book", " ", "SET", " ",
                          "title", " ", "=", " ", "$", "1", ",", " ",
                          "price", " ", "=", " ", "$", "2">>
    /\ query.value[2] = <<"X", "9">>

\* the argument of the last call of the method m, None without such a call
LastArg(m) ==
    LET at == {i \in 1..Len(calls) : calls[i].method = m}
    IN IF at = {} THEN None
       ELSE Some(calls[CHOOSE i \in at : \A j \in at : j <= i].n)

SelectHead ==
    <<"SELECT", " ", "book", ".", "id", ",", " ", "book", ".", "title", " ",
      "FROM", " ", "book">>

\* the clauses that close a Select: LIMIT first, OFFSET second
SelectTail ==
    (IF LastArg("limit").some
     THEN <<" ", "LIMIT", " ">> \o to_string(LastArg("limit").value) ELSE <<>>)
    \o (IF LastArg("offset").some
         THEN <<" ", "OFFSET", " ">> \o to_string(LastArg("offset").value) ELSE <<>>)

\* C11: a Select renders SELECT <table.col, ...> FROM <table>, then the
\* optional WHERE clause, then LIMIT n if a limit was set, then OFFSET m if
\* an offset was set, whatever the order of the limit and offset calls; an
\* offset without a limit renders OFFSET alone.
C11_SelectClauseOrder ==
    (builder.type = "Select" /\ query.some) =>
      LET text == query.value[1]
          h == Len(SelectHead)
          t == Len(SelectTail)
          middle == SubSeq(text, h + 1, Len(text) - t)
      IN /\ Len(text) >= h + t
         /\ SubSeq(text, 1, h) = SelectHead
         /\ SubSeq(text, Len(text) - t + 1, Len(text)) = SelectTail
         /\ Count(middle, "LIMIT") = 0 /\ Count(middle, "OFFSET") = 0
         /\ IF NoCondition THEN middle = <<>>
            ELSE Len(middle) > 3 /\ SubSeq(middle, 1, 3) = <<" ", "WHERE", " ">>

C11_Witness ==
    /\ builder.type = "Select" /\ query.some
    /\ Len(calls) = 3
    /\ calls[1].method = "offset" /\ calls[2].method = "where_" /\ calls[3].method = "limit"
    /\ calls[2].where_ = TypedColumn_gt(Book_id, "1")
    /\ query.value[1] = SelectHead \o <<" ", "WHERE", " ", "book", ".", "id", " ", ">", " ",
                                        "$", "1", " ", "LIMIT", " ", "3", " ", "OFFSET", " ", "4">>

\* the statement of a builder that holds no condition
BareStatement ==
    CASE builder.type = "Select" -> SelectHead \o SelectTail
      [] builder.type = "Delete" -> <<"DELETE", " ", "FROM", " ", "book">>
      [] OTHER -> <<>>

\* a buffer that already holds text and a parameter
UsedBuffer == <<<<"x", " ", "=", " ", "?", " ">>, <<"v">>>>

\* structural emptiness as the specification defines it
RECURSIVE StructurallyEmpty(_)
StructurallyEmpty(w) ==
    CASE w.tag = "Empty" -> TRUE
      [] w.tag = "Raw" -> w.chunk[1] = <<>>
      [] w.tag = "Not" -> StructurallyEmpty(w.inner)
      [] OTHER -> \A i \in 1..Len(w.vec) : StructurallyEmpty(w.vec[i])

\* C12: a structurally empty predicate (Empty, Raw with empty text, Not of
\* an empty tree, And/Or of empty children only) pushes no text and no
\* parameters, and a Select or Delete holding one renders without WHERE
\* and without parameters.
C12_EmptyPredicateRendersNothing ==
    (builder.type \in {"Select", "Delete"} /\ StructurallyEmpty(builder.where_)) =>
      /\ Where_is_empty(builder.where_)
      /\ Render(builder.where_) = Query_default
      /\ Where_push_to_buffer(builder.where_, UsedBuffer) = UsedBuffer
      /\ query.some =>
           /\ query.value[1] = BareStatement
           /\ Count(query.value[1], "WHERE") = 0
           /\ query.value[2] = <<>>

C12_Witness ==
    /\ builder.type = "Delete" /\ query.some
    /\ builder.where_ = And(<<Raw(SqlChunk(<<>>, <<"a">>)), Not(Where_default)>>)
    /\ query.value = <<<<"DELETE", " ", "FROM", " ", "book">>, <<>>>>

(***************************************************************************)
(* Properties of the column operations (checked under SpecColumn).         *)
(***************************************************************************)

\* $1, $2, ..., $n
RECURSIVE NumberedList(_)
NumberedList(n) ==
    IF n = 1 THEN <<"$", "1">>
    ELSE NumberedList(n - 1) \o <<",", " ", "$">> \o to_string(n)

\* C13: one_of(vs) and none_of(vs) return the empty predicate without
\* arguments, and no IN (), for an empty list; for n >= 1 values they return
\* <col> IN ($1, ..., $n) / <col> NOT IN ($1, ..., $n) with the n values as
\* arguments in input order.
C13_OneOfNoneOf ==
    (version = "lib" /\ op \in {"one_of", "none_of"}) =>
      LET vs == calls[1].value
          col == calls[1].col.name
          kw == IF op = "one_of" THEN <<"IN">> ELSE <<"NOT", " ", "IN">>
      IN IF vs = <<>>
         THEN /\ res = Filter_all
              /\ res.stmt = <<>> /\ res.args = <<>>
              /\ Count(res.stmt, "IN") = 0
         ELSE /\ res.stmt = col \o <<" ">> \o kw \o <<" ", "(">> \o NumberedList(Len(vs)) \o <<")">>
              /\ res.args = vs
              /\ Len(res.args) = Len(vs)

C13_Witness ==
    /\ version = "lib" /\ op = "one_of"
    /\ calls[1].col = Person_id /\ calls[1].value = <<>>
    /\ res = Filter_all

\* the operator a comparison writes between the column and the placeholder
Symbol(m) ==
    CASE m = "eq" -> <<"=">>
      [] m = "gt" -> <<">">>
      [] m = "gte" -> <<">", "=">>
      [] m = "lt" -> <<"<">>
      [] m = "lte" -> <<"<", "=">>

\* the column of the call as <table>.<column>
CalledColumn == <<calls[1].col.column.table_name, ".", calls[1].col.column.column_name>>

\* C14: a single-value comparison on a typed column returns a fragment that
\* names the column as <table>.<column>, holds one placeholder and the value
\* supplied as its only parameter (is-null: no placeholder, no parameter);
\* in a statement, equals(5) on book.id gives book.id = $1 with [5].
C14_TypedComparisons ==
    (version = "Where" /\ op # "none") =>
      /\ res.tag = "Raw"
      /\ res.chunk[1] =
           (CASE op = "null" -> CalledColumn \o <<" ", "IS", " ", "NULL">>
              [] op = "contains" -> <<"?", " ", "=", " ", "ANY", "(">> \o CalledColumn \o <<")">>
              [] OTHER -> CalledColumn \o <<" ">> \o Symbol(op) \o <<" ", "?">>)
      /\ Count(res.chunk[1], "?") = (IF op = "null" THEN 0 ELSE 1)
      /\ res.chunk[2] = (IF op = "null" THEN <<>> ELSE <<calls[1].value>>)
      /\ query.some =>
           /\ query.value[2] = res.chunk[2]
           /\ Count(query.value[1], "?") = 0
           /\ Count(query.value[1], "$") = Len(res.chunk[2])
           /\ op = "eq" =>
                query.value[1] = SelectHead \o <<" ", "WHERE", " ">> \o CalledColumn
                                   \o <<" ", "=", " ", "$", "1">>

C14_Witness ==
    /\ version = "Where" /\ op = "eq"
    /\ calls[1].col = Book_id /\ calls[1].value = "5"
    /\ query.some
    /\ query.value = <<SelectHead \o <<" ", "WHERE", " ", "book", ".", "id", " ", "=", " ",
                                        "$", "1">>,
                       <<"5">>>>

(***************************************************************************)
(* Properties of the execution and of the connection (checked under        *)
(* SpecDb).                                                                *)
(***************************************************************************)

\* the executor calls of the execution at hand
CallsOfExec == SelectSeq(sent, LAMBDA c : c.n = exec.n)

\* the executor answered the execution at hand with rows
GotRows(outcome) ==
    /\ exec.pc = "done" /\ exec.outcome = outcome
    /\ CallsOfExec # <<>>
    /\ exec.reply.ok

\* the rows of the answer that do not decode
Failing == {i \in 1..Len(exec.reply.value) : ~exec.reply.value[i].decodes}

\* C15: a Vec<T> query returns the error of the (first) row that fails to
\* decode and never a partial collection; if every row decodes, it returns
\* one value per row in row order.
C15_VecAllOrNothing ==
    GotRows("Vec") =>
      LET rows == exec.reply.value IN
      IF Failing # {}
      THEN /\ ~exec.result.ok
           /\ exec.result.error = <<"decode", CHOOSE i \in Failing : \A j \in Failing : i <= j>>
      ELSE /\ exec.result.ok
           /\ exec.result.value = [i \in 1..Len(rows) |-> <<"T", rows[i].id>>]

C15_Witness ==
    /\ GotRows("Vec")
    /\ exec.reply.value = <<[id |-> 1, decodes |-> TRUE], [id |-> 2, decodes |-> FALSE]>>
    /\ exec.result = Err(<<"decode", 2>>)

\* C16: an Option<T> query fails with the row's error when any returned
\* row, not only the first one, fails to decode.
C16_OptionAnyRowFailure ==
    (GotRows("Option") /\ Failing # {}) =>
      /\ ~exec.result.ok
      /\ \E i \in Failing : exec.result.error = <<"decode", i>>

\* C17: an Option<T> query returns Ok(None) for zero rows, and for more
\* than one row the decoded first row, whatever the other rows are.
C17_OptionFirstRow ==
    GotRows("Option") =>
      LET rows == exec.reply.value IN
      /\ rows = <<>> => exec.result = Ok(None)
      /\ (Len(rows) >= 1 /\ rows[1].decodes) => exec.result = Ok(Some(<<"T", rows[1].id>>))

C17_Witness ==
    /\ GotRows("Option")
    /\ Len(exec.reply.value) = 2 /\ Failing = {}
    /\ exec.result = Ok(Some(<<"T", 1>>))

\* C18: an execution calls the executor once (query for Vec<T> and
\* Option<T>, execute for u64) and never again; a failed call's error is
\* what the caller gets.
C18_OneCallNoRetry ==
    /\ Len(sent) <= exec.n
    /\ Len(CallsOfExec) <= 1
    /\ exec.pc = "await" => Len(CallsOfExec) = 1
    /\ (exec.pc = "done" /\ exec.outcome \in Outcomes) =>
         /\ exec.result.ok => Len(CallsOfExec) = 1
         /\ CallsOfExec # <<>> =>
              /\ CallsOfExec[1].method = (IF exec.outcome = "u64" THEN "execute" ELSE "query")
              /\ CallsOfExec[1].statement = exec.statement
              /\ ~exec.reply.ok => exec.result = exec.reply

C18_Witness ==
    /\ exec.pc = "done" /\ exec.outcome = "u64" /\ exec.n = 2
    /\ Len(sent) = 2
    /\ ~exec.reply.ok
    /\ exec.result = Err("PostgresError")

Installer(t) ==
    \/ conn[t].kind = "connect" /\ CLIENT = Some(t)
    \/ conn[t].kind \in {"set_pool", "build"} /\ POOL = Some(t)

\* at most one call succeeds per cell, and it is the one installed
OneInstaller ==
    /\ \A t \in Tasks : conn[t].pc = "done" => (conn[t].result.ok <=> Installer(t))
    /\ CLIENT.some => conn[CLIENT.value].pc = "done" /\ conn[CLIENT.value].kind = "connect"
    /\ POOL.some => conn[POOL.value].pc = "done" /\ conn[POOL.value].kind # "connect"

\* C20 as stated: the first successful call installs the client or pool
\* and every later call returns the already-connected error.
C20_EveryLaterCallAlreadyConnected ==
    /\ OneInstaller
    /\ \A t \in Tasks :
         (conn[t].pc = "done" /\ conn[t].late) => conn[t].result = Err("AlreadyConnected")

\* C20 as amended: one call installs the client or pool and it is never
\* replaced; every other call that gets as far as registering returns the
\* already-connected error, and a call whose own connection attempt or
\* configuration fails returns that failure.
C20_RegisteredOnce ==
    /\ [](/\ OneInstaller
          /\ \A t \in Tasks :
               conn[t].pc = "done" =>
                 /\ (conn[t].registered /\ ~Installer(t))
                      => conn[t].result = Err("AlreadyConnected")
                 /\ ~conn[t].registered
                      => conn[t].result \in {Err("PostgresError"), Err("InvalidPoolConfig")}
                 /\ conn[t].late => ~conn[t].result.ok)
    /\ [][(CLIENT.some => CLIENT' = CLIENT) /\ (POOL.some => POOL' = POOL)]_vars

C20_Witness ==
    /\ CLIENT = Some(2)
    /\ conn[2].pc = "done" /\ conn[2].result = Ok("conn")
    /\ conn[1].pc = "done" /\ conn[1].kind = "connect" /\ ~conn[1].late
    /\ conn[1].registered /\ conn[1].result = Err("AlreadyConnected")

(***************************************************************************)
(* Properties of the prepared-statement cache (checked under SpecPrepared).*)
(***************************************************************************)

\* two tasks have called ensure_prepared on the same text, which was not
\* cached when either of them looked, and both calls have returned
Raced ==
    /\ \A t \in Tasks : prep[t].pc = "done" /\ prep[t].n = 1
    /\ \A t, u \in Tasks : prep[t].statement = prep[u].statement

\* C21: when two callers race ensure_prepared on the same uncached statement
\* text, both calls return success and the cache afterwards maps that text
\* to one prepared handle.
C21_RacingCallsSucceed ==
    Raced =>
      /\ \A t \in Tasks : prep[t].result = "Ok"
      /\ contains_key(PREPARED_STATEMENTS, prep[1].statement)

(***************************************************************************)
(* Properties of transactions and pooled executions (checked under SpecTx).*)
(***************************************************************************)

\* the connections a task holds
Holds(t) == {c \in Conns : slots[c].holder = t}

\* a task that got a connection and is through with it
Through(t) == txn[t].pc = "done" /\ txn[t].client # 0

\* C22: a pooled connection taken for a transaction or an execution goes
\* back to the pool exactly once on every path (begin fails, commit,
\* rollback, drop, abandoned execution), and a transaction is released
\* before the client it borrows from.
C22_ConnectionReturnedOnce ==
    /\ \A c \in Conns :
         slots[c].returned = slots[c].taken - (IF slots[c].holder = 0 THEN 0 ELSE 1)
    /\ \A t \in Tasks :
         /\ Holds(t) = IF txn[t].pc \in {"idle", "done"} THEN {} ELSE {txn[t].client}
         /\ Through(t) =>
              txn[t].released = IF txn[t].transaction = "none" THEN <<"client">>
                                ELSE <<"transaction", "client">>
         /\ ~Through(t) => txn[t].released = <<>>

\* one task committed its transaction, the other failed to open one, and
\* both connections are back in the pool
C22_Witness ==
    /\ \E t \in Tasks :
         /\ Through(t) /\ txn[t].transaction = "committed"
         /\ txn[t].released = <<"transaction", "client">>
    /\ \E t \in Tasks :
         /\ Through(t) /\ txn[t].kind = "Transaction" /\ txn[t].transaction = "none"
         /\ txn[t].released = <<"client">>
    /\ \A c \in Conns : slots[c].holder = 0 /\ slots[c].taken = slots[c].returned
    /\ \E c \in Conns : slots[c].taken > 0

\* C23: statements executed through Transaction::execute run on the
\* transaction's own connection; what they wrote is not seen outside the
\* transaction until commit has succeeded, and is seen outside afterwards.
C23_TransactionIsolation ==
    \A t \in Tasks :
      txn[t].kind = "Transaction" =>
        /\ txn[t].n > 0 => txn[t].ran_on = txn[t].client
        /\ txn[t].transaction # "committed" =>
             /\ t \notin data
             /\ \A u \in Tasks : txn[u].kind = "exec" => t \notin txn[u].seen
        /\ txn[t].transaction = "committed" => txn[t].writes \subseteq data

\* a transaction inserted its row and committed, and a select executed
\* outside saw the row; the other way round, a select outside that ran
\* while the transaction was open did not see it
C23_Witness ==
    \E t, u \in Tasks :
      /\ txn[t].kind = "Transaction" /\ txn[t].transaction = "committed"
      /\ txn[t].writes = {t} /\ txn[t].ran_on = txn[t].client
      /\ txn[u].kind = "exec" /\ txn[u].pc = "done" /\ txn[u].statement = "select"
      /\ txn[u].result = "Ok" /\ txn[u].seen = {t}

(***************************************************************************)
(* Properties of two builders built alike (checked under SpecTwin).        *)
(***************************************************************************)

\* C24: parameter values are passed out of band: two builders put through
\* the same calls with different values render the same statement text, and
\* as many parameters.
C24_TextIndependentOfValues ==
    query.some =>
      /\ twin.query.some
      /\ query.value[1] = twin.query.value[1]
      /\ Len(query.value[2]) = Len(twin.query.value[2])

\* an Update with a set and a condition, converted, where the two builders
\* hold different values in both places
C24_Witness ==
    /\ query.some /\ builder.type = "Update"
    /\ Len(query.value[2]) = 2
    /\ \A i \in 1..2 : query.value[2][i] # twin.query.value[2][i]
    /\ query.value[1] = twin.query.value[1]

(***************************************************************************)
(* Properties of the trees (checked under SpecTree).                       *)
(***************************************************************************)

\* the truth of a tree when exactly the fragments in holds are true
RECURSIVE Eval(_, _)
Eval(w, holds) ==
    CASE w.tag = "And" -> \A i \in 1..Len(w.vec) : Eval(w.vec[i], holds)
      [] w.tag = "Or" -> \E i \in 1..Len(w.vec) : Eval(w.vec[i], holds)
      [] w.tag = "Not" -> ~Eval(w.inner, holds)
      [] OTHER -> w \in holds

RECURSIVE HasEmpty(_)
HasEmpty(w) ==
    CASE w.tag \in {"And", "Or"} -> \E i \in 1..Len(w.vec) : HasEmpty(w.vec[i])
      [] w.tag = "Not" -> HasEmpty(w.inner)
      [] OTHER -> w.tag = "Empty"

\* C25: & and | on trees are logical AND and OR: under every truth
\* assignment to the fragments, x | y is true exactly when x or y is, and
\* x & y exactly when both are.
C25_CombinatorsAreLogical ==
    (op \in {"and", "or"} /\ ~HasEmpty(lhs) /\ ~HasEmpty(rhs)) =>
      \A holds \in SUBSET TypedFragments :
        Eval(res, holds) = IF op = "and" THEN Eval(lhs, holds) /\ Eval(rhs, holds)
                           ELSE Eval(lhs, holds) \/ Eval(rhs, holds)

\* C26: AND and OR on trees are associative: with A and B the two trees
\* held and C any fragment, (A and B) and C renders the same text and
\* parameters as A and (B and C), and likewise for or.
C26_Associative ==
    (op \in {"and", "or"} /\ ~HasEmpty(lhs) /\ ~HasEmpty(rhs)) =>
      \A C \in TypedFragments :
        IF op = "and"
        THEN Where_to_stmt(Where_bitand(res, C))
               = Where_to_stmt(Where_bitand(lhs, Where_bitand(rhs, C)))
        ELSE Where_to_stmt(Where_bitor(res, C))
               = Where_to_stmt(Where_bitor(lhs, Where_bitor(rhs, C)))

RECURSIVE Flat(_)
Flat(w) ==
    CASE w.tag \in {"And", "Or"} ->
           \A i \in 1..Len(w.vec) : w.vec[i].tag # w.tag /\ Flat(w.vec[i])
      [] w.tag = "Not" -> Flat(w.inner)
      [] OTHER -> TRUE

\* C27: in every tree built by and / or / not calls, no And node has an And
\* node as a direct child and no Or node an Or node.
C27_NoNestedSameVariant == Flat(lhs) /\ Flat(rhs) /\ Flat(res)

(***************************************************************************)
(* Properties of the Update builder's call order (checked under SpecBuild).*)
(***************************************************************************)

\* the values the where_ and where_raw calls from the i-th on bring along
RECURSIVE WhereValues(_)
WhereValues(i) ==
    IF i > Len(calls) THEN <<>>
    ELSE (IF calls[i].method \in {"where_", "where_raw"}
          THEN Where_push_to_buffer(calls[i].where_, Query_default)[2]
          ELSE <<>>) \o WhereValues(i + 1)

\* how often v occurs in the sequence
Occurrences(seq, v) == Cardinality({i \in 1..Len(seq) : seq[i] = v})

\* C28: whatever the order of the set and where_ calls on an Update, the
\* statement has the SET assignments, in set-call order, before the WHERE
\* clause, and the parameters are the SET values followed by the WHERE
\* values, so that the k-th placeholder binds the k-th parameter.
C28_SetBeforeWhere ==
    (builder.type = "Update" /\ query.some) =>
      LET text == query.value[1]
          params == query.value[2]
          n == Len(SetCalls)
          head == <<"UPDATE", " ", "book", " ", "SET", " ">> \o ExpectedSet
          tail == SubSeq(text, Len(head) + 1, Len(text))
          rest == SubSeq(params, n + 1, Len(params))
      IN /\ Len(text) >= Len(head) /\ SubSeq(text, 1, Len(head)) = head
         /\ Len(params) >= n
         /\ SubSeq(params, 1, n) = [i \in 1..n |-> SetCalls[i].value]
         /\ PlaceholderNumbers(tail) = [k \in 1..Len(rest) |-> n + k]
         /\ \A v \in {rest[i] : i \in 1..Len(rest)} \cup {"a", "b"} :
              Occurrences(rest, v) = Occurrences(WhereValues(1), v)

\* where_ was called before set
C28_Witness ==
    /\ builder.type = "Update" /\ query.some
    /\ calls = <<[method |-> "where_", where_ |-> TypedColumn_gt(Book_id, "1")],
                 [method |-> "set", col |-> Book_title, value |-> "X"]>>
    /\ query.value[1] = <<"UPDATE", " ", "book", " ", "SET", " ",
                          "title", " ", "=", " ", "$", "1", " ", "WHERE", " ",
                          "book", ".", "id", " ", ">", " ", "$", "2">>
    /\ query.value[2] = <<"X", "1">>

(***************************************************************************)
(* Properties of filters over any column name (checked under SpecCombine). *)
(***************************************************************************)

\* C29: combining two non-empty filters with & or | returns a combined
\* filter whatever the two statement texts are, also when the right one
\* holds a `$` that no digit follows: the combination never aborts.
C29_CombinationNeverAborts ==
    (op \in {"and", "or"} /\ lhs # Filter_all /\ rhs # Filter_all) =>
      /\ res # Panic
      /\ res.args = lhs.args \o rhs.args

(***************************************************************************)
(* Properties of the migration (checked under SpecMigration).              *)
(***************************************************************************)

Issued(statement) ==
    \E i \in 1..Len(migration.statements) : migration.statements[i] = statement

\* a statement that puts a constraint on a table that exists
AddsConstraint(statement) == statement[Len(statement)] = "SET NOT NULL"

\* C30: try_migration_from(old, new) issues the statements that turn old
\* into new: CREATE TABLE for a table of new that old lacks, a statement
\* adding each column of new that the old table lacks, DROP COLUMN for a
\* column only the old table has, and every constraint after all of these.
C30_MigratesOldToNew ==
    migration.called =>
      LET old == migration.old
          new == migration.new
          statements == migration.statements
      IN /\ \A i \in 1..Len(new.tables) :
              LET table == new.tables[i]
                  old_table == find_name(old.tables, table.name)
              IN IF ~old_table.some THEN Issued(Table_up(table))
                 ELSE /\ \A j \in 1..Len(table.columns) :
                           ~find_name(old_table.value.columns, table.columns[j].name).some
                             => Issued(AlterTable(table.name,
                                                  migration_Column_up(table.columns[j])))
                      /\ \A j \in 1..Len(old_table.value.columns) :
                           ~find_name(table.columns, old_table.value.columns[j].name).some
                             => Issued(AlterTable(table.name,
                                         migration_Column_down(old_table.value.columns[j])))
         /\ \A i, j \in 1..Len(statements) :
              (AddsConstraint(statements[i]) /\ ~AddsConstraint(statements[j])) => j < i

====
